---- MODULE Spec2Model ----
(***************************************************************************)
(* Model of the Sociality REST backend (Express + Prisma + PostgreSQL):    *)
(* the relational store (posts, likes, comments, follows) and the request  *)
(* handlers that mutate it.  Every handler is a sequence of awaited store  *)
(* calls; one action models one store call together with the synchronous   *)
(* code that follows it up to the next await (or the response).  Requests  *)
(* run in slots: one slot gives sequential requests, several slots give    *)
(* the interleavings of concurrent requests.                               *)
(***************************************************************************)
EXTENDS Integers, FiniteSets, Sequences, TLC

\* ---------------------------------------------------------------- bounds
NumUsers == 2
NumPosts == 2
MaxSlots == 2
MaxRequests == 3

\* ------------------------------------------------------------ store shape
UserIds == 1..NumUsers
PostIds == 1..NumPosts
\* one id past the last row: a post / comment id that does not exist
AnyPostId == 1..(NumPosts + 1)
Slots == 1..MaxSlots
SeqSlots == {1}

Null == [null |-> TRUE]

AllNames == <<"alice", "bob", "carol", "dave", "erin", "frank">>
UsernameOf(i) == AllNames[i]
\* the registered users, and one username nobody registered
AllEmails == <<"alice@x.io", "bob@x.io", "carol@x.io", "dave@x.io", "erin@x.io", "frank@x.io">>
EmailOf(i) == AllEmails[i]
AllPhones == <<"0811", "0812", "0813", "0814", "0815", "0816">>
PhoneOf(i) == AllPhones[i]
\* phone: phone || null, and a body without a phone
NoPhone == ""
\* the users registered before the requests of a run: the first gave a phone
UserTable ==
  {[id |-> i, username |-> UsernameOf(i), email |-> EmailOf(i),
    phone |-> IF i = 1 THEN PhoneOf(i) ELSE NoPhone] : i \in UserIds}
AnyUsername == {UsernameOf(i) : i \in 1..(NumUsers + 1)}

OwnerOf(p) == ((p - 1) % NumUsers) + 1

VARIABLES
  posts,          \* postId -> [userId, likeCount, commentCount, createdAt]  (Post table)
  likes,          \* set of [userId, postId]                      (Like table)
  comments,       \* set of [id, postId, userId]                  (Comment table, committed rows)
  follows,        \* set of [followerId, followingId, createdAt]  (Follow table)
  saves,          \* set of [userId, postId]                      (Save table)
  users,          \* set of [id, username, email, phone]         (User table)
  nextCommentId,  \* autoincrement of Comment.id
  clock,          \* timestamp source for createdAt
  reqs,           \* slot -> the request being handled in it
  started         \* number of requests received so far

vars == <<posts, likes, comments, follows, saves, users, nextCommentId, clock, reqs, started>>
store == <<posts, likes, comments, follows, saves, users, nextCommentId, clock>>

\* ------------------------------------------------------------- responses
NoResponse == [status |-> 0, message |-> "", data |-> Null]

successResponse(data, message, status) ==
  [status |-> status, message |-> message, data |-> data]

errorResponse(message, status) ==
  [status |-> status, message |-> message, data |-> Null]

GenericError == errorResponse("Something went wrong", 500)

IdleReq ==
  [op |-> "none", pc |-> "idle", userId |-> 0, arg |-> 0,
   found |-> Null, count |-> 0, tx |-> Null, res |-> NoResponse]

\* a request enters a free slot (handlers are started by the HTTP layer); slots
\* are interchangeable, so the lowest free one is taken
Free(r) ==
  /\ reqs[r].pc \in {"idle", "done"}
  /\ started < MaxRequests
  /\ \A o \in Slots : o < r => reqs[o].pc \notin {"idle", "done"}

NewReq(op, u, arg, pc, found) ==
  [op |-> op, pc |-> pc, userId |-> u, arg |-> arg,
   found |-> found, count |-> 0, tx |-> Null, res |-> NoResponse]

Respond(r, op, u, arg, res) ==
  reqs' = [reqs EXCEPT ![r] = [NewReq(op, u, arg, "done", Null) EXCEPT !.res = res]]

\* the handler returns: its locals are dropped, the response stays
Finish(r, res) ==
  reqs' = [reqs EXCEPT ![r].pc = "done", ![r].res = res,
                       ![r].found = Null, ![r].count = 0, ![r].tx = Null]

Goto(r, pc) == reqs' = [reqs EXCEPT ![r].pc = pc]

\* ---------------------------------------------------------- store queries
PostFindUnique(p) == IF p \in DOMAIN posts THEN posts[p] ELSE Null

LikeRow(u, p) == [userId |-> u, postId |-> p]
LikeFindUnique(u, p) == IF LikeRow(u, p) \in likes THEN LikeRow(u, p) ELSE Null

LikesOf(ls, p) == {l \in ls : l.postId = p}
CommentsOf(cs, p) == {c \in cs : c.postId = p}

Init ==
  /\ posts = [p \in PostIds |->
                [userId |-> OwnerOf(p), likeCount |-> 0, commentCount |-> 0, createdAt |-> 0]]
  /\ likes = {}
  /\ comments = {}
  /\ follows = {}
  /\ saves = {}
  /\ users = UserTable
  /\ nextCommentId = 1
  /\ clock = 1
  /\ reqs = [r \in Slots |-> IdleReq]
  /\ started = 0

\* ------------------------------------------------- POST /posts/:id/like
\* (mutant) the post lookup's result is not tested
LikeFindPost_NoPostCheck(r, u, p) ==
  /\ Free(r)
  /\ started' = started + 1
  /\ reqs' = [reqs EXCEPT ![r] = NewReq("like", u, p, "like_findLike", PostFindUnique(p))]
  /\ UNCHANGED store

\* await prisma.post.findUnique; 404 when the post is missing
LikeFindPost(r, u, p) ==
  /\ Free(r)
  /\ started' = started + 1
  /\ LET post == PostFindUnique(p) IN
       IF post = Null
         THEN Respond(r, "like", u, p, errorResponse("Post not found", 404))
         ELSE reqs' = [reqs EXCEPT ![r] = NewReq("like", u, p, "like_findLike", post)]
  /\ UNCHANGED store

\* (mutant) the existence check is skipped: the transaction always runs
LikeFindLike_NoExistenceCheck(r) ==
  /\ reqs[r].pc = "like_findLike"
  /\ Goto(r, "like_tx")
  /\ UNCHANGED <<store, started>>

\* await prisma.like.findUnique; "Already liked" with the counter read above
LikeFindLike(r) ==
  /\ reqs[r].pc = "like_findLike"
  /\ LET q == reqs[r] IN
       IF LikeFindUnique(q.userId, q.arg) # Null
         THEN Finish(r, successResponse(
                [liked |-> TRUE, likeCount |-> q.found.likeCount], "Already liked", 200))
         ELSE Goto(r, "like_tx")
  /\ UNCHANGED <<store, started>>

\* (mutant) the decrement is forgotten
UnlikeCount_NoDecrement(current, seen) == current

\* the likeCount the unlike transaction writes: post.likeCount > 0 ? decrement : undefined
UnlikeCount(current, seen) == IF seen > 0 THEN current - 1 ELSE current

\* (mutant) like.create and post.update run without a transaction: a throwing
\* post.update leaves the created Like row behind
LikeTx_NoRollback(r, fault) ==
  /\ reqs[r].pc = "like_tx"
  /\ LET q == reqs[r]
         u == q.userId
         p == q.arg
         createFails == fault = "create" \/ LikeRow(u, p) \in likes
         updateFails == fault = "update" \/ p \notin DOMAIN posts
     IN IF createFails
          THEN /\ Finish(r, GenericError)
               /\ UNCHANGED <<posts, likes>>
          ELSE IF updateFails
            THEN /\ likes' = likes \cup {LikeRow(u, p)}
                 /\ Finish(r, GenericError)
                 /\ UNCHANGED posts
            ELSE /\ likes' = likes \cup {LikeRow(u, p)}
                 /\ posts' = [posts EXCEPT ![p].likeCount = @ + 1]
                 /\ Finish(r, successResponse(
                      [liked |-> TRUE, likeCount |-> posts'[p].likeCount], "Liked", 200))
  /\ UNCHANGED <<comments, follows, saves, users, nextCommentId, clock, started>>

\* await prisma.$transaction: like.create, then post.update increment.
\* like.create throws on the unique (userId, postId) key, post.update throws
\* when the post is gone; a throw rolls the transaction back and is answered 500.
LikeTx(r, fault) ==
  /\ reqs[r].pc = "like_tx"
  /\ LET q == reqs[r]
         u == q.userId
         p == q.arg
         createFails == fault = "create" \/ LikeRow(u, p) \in likes
         updateFails == fault = "update" \/ p \notin DOMAIN posts
     IN IF createFails \/ updateFails
          THEN /\ Finish(r, GenericError)
               /\ UNCHANGED <<posts, likes>>
          ELSE /\ likes' = likes \cup {LikeRow(u, p)}
               /\ posts' = [posts EXCEPT ![p].likeCount = @ + 1]
               /\ Finish(r, successResponse(
                    [liked |-> TRUE, likeCount |-> posts'[p].likeCount], "Liked", 200))
  /\ UNCHANGED <<comments, follows, saves, users, nextCommentId, clock, started>>

\* ----------------------------------------------- DELETE /posts/:id/like
UnlikeFindPost(r, u, p) ==
  /\ Free(r)
  /\ started' = started + 1
  /\ LET post == PostFindUnique(p) IN
       IF post = Null
         THEN Respond(r, "unlike", u, p, errorResponse("Post not found", 404))
         ELSE reqs' = [reqs EXCEPT ![r] = NewReq("unlike", u, p, "unlike_findLike", post)]
  /\ UNCHANGED store

\* (mutant) the "Already unliked" answer carries a zero instead of the counter
UnlikeFindLike_ZeroCount(r) ==
  /\ reqs[r].pc = "unlike_findLike"
  /\ LET q == reqs[r] IN
       IF LikeFindUnique(q.userId, q.arg) = Null
         THEN Finish(r, successResponse(
                [liked |-> FALSE, likeCount |-> 0], "Already unliked", 200))
         ELSE Goto(r, "unlike_tx")
  /\ UNCHANGED <<store, started>>

\* await prisma.like.findUnique; "Already unliked" with the counter read above
UnlikeFindLike(r) ==
  /\ reqs[r].pc = "unlike_findLike"
  /\ LET q == reqs[r] IN
       IF LikeFindUnique(q.userId, q.arg) = Null
         THEN Finish(r, successResponse(
                [liked |-> FALSE, likeCount |-> q.found.likeCount], "Already unliked", 200))
         ELSE Goto(r, "unlike_tx")
  /\ UNCHANGED <<store, started>>

\* (mutant) the Like row is deleted without the counter write
UnlikeTx_NoCounterWrite(r, fault) ==
  /\ reqs[r].pc = "unlike_tx"
  /\ LET q == reqs[r]
         u == q.userId
         p == q.arg
         deleteFails == fault = "delete" \/ LikeRow(u, p) \notin likes
     IN IF deleteFails
          THEN /\ Finish(r, GenericError)
               /\ UNCHANGED likes
          ELSE /\ likes' = likes \ {LikeRow(u, p)}
               /\ Finish(r, successResponse(
                    [liked |-> FALSE, likeCount |-> q.found.likeCount - 1], "Unliked", 200))
  /\ UNCHANGED <<posts, comments, follows, saves, users, nextCommentId, clock, started>>

\* await prisma.$transaction: like.delete, then post.update with the decrement
\* chosen from the post read before the transaction.
UnlikeTx(r, fault) ==
  /\ reqs[r].pc = "unlike_tx"
  /\ LET q == reqs[r]
         u == q.userId
         p == q.arg
         deleteFails == fault = "delete" \/ LikeRow(u, p) \notin likes
         updateFails == fault = "update" \/ p \notin DOMAIN posts
     IN IF deleteFails \/ updateFails
          THEN /\ Finish(r, GenericError)
               /\ UNCHANGED <<posts, likes>>
          ELSE /\ likes' = likes \ {LikeRow(u, p)}
               /\ posts' = [posts EXCEPT
                    ![p].likeCount = UnlikeCount(@, q.found.likeCount)]
               /\ Finish(r, successResponse(
                    [liked |-> FALSE, likeCount |-> posts'[p].likeCount], "Unliked", 200))
  /\ UNCHANGED <<comments, follows, saves, users, nextCommentId, clock, started>>

\* like and unlike requests of one client, each finished before the next starts
NextLikeSeq ==
  \/ \E r \in SeqSlots, u \in UserIds, p \in AnyPostId : LikeFindPost(r, u, p)
  \/ \E r \in SeqSlots : LikeFindLike(r)
  \/ \E r \in SeqSlots : LikeTx(r, "none")
  \/ \E r \in SeqSlots, u \in UserIds, p \in AnyPostId : UnlikeFindPost(r, u, p)
  \/ \E r \in SeqSlots : UnlikeFindLike(r)
  \/ \E r \in SeqSlots : UnlikeTx(r, "none")

SpecLikeSeq == Init /\ [][NextLikeSeq]_vars

\* like and unlike requests of several clients, interleaved at every await
NextLike ==
  \/ \E r \in Slots, u \in UserIds, p \in AnyPostId : LikeFindPost(r, u, p)
  \/ \E r \in Slots : LikeFindLike(r)
  \/ \E r \in Slots : LikeTx(r, "none")
  \/ \E r \in Slots, u \in UserIds, p \in AnyPostId : UnlikeFindPost(r, u, p)
  \/ \E r \in Slots : UnlikeFindLike(r)
  \/ \E r \in Slots : UnlikeTx(r, "none")

SpecLike == Init /\ [][NextLike]_vars

\* a store whose likeCount column was edited by hand: any Like rows, and a
\* counter at or below the number of rows
AllLikeRows == {LikeRow(u, p) : u \in UserIds, p \in PostIds}

InitDrift ==
  /\ likes \in SUBSET AllLikeRows
  /\ posts \in [PostIds -> [userId : UserIds, likeCount : 0..NumUsers, commentCount : {0}, createdAt : {0}]]
  /\ \A p \in PostIds :
       /\ posts[p].userId = OwnerOf(p)
       /\ posts[p].likeCount <= Cardinality(LikesOf(likes, p))
  /\ comments = {}
  /\ follows = {}
  /\ saves = {}
  /\ users = UserTable
  /\ nextCommentId = 1
  /\ clock = 1
  /\ reqs = [r \in Slots |-> IdleReq]
  /\ started = 0

SpecLikeDrift == InitDrift /\ [][NextLike]_vars

\* --------------------------------------------- POST /posts/:id/comments
\* (mutant) the counter is bumped by one instead of set to the count
safeSetPostCommentCount_Increment(ps, postId, count, fails) ==
  IF fails \/ postId \notin DOMAIN ps
    THEN ps
    ELSE [ps EXCEPT ![postId].commentCount = @ + 1]

\* Helper update counter: a failing post.update is swallowed
safeSetPostCommentCount(ps, postId, count, fails) ==
  IF fails \/ postId \notin DOMAIN ps
    THEN ps
    ELSE [ps EXCEPT ![postId].commentCount = count]

\* await prisma.post.findUnique({select: {id}}); 404 when the post is missing
CommentFindPost(r, u, p) ==
  /\ Free(r)
  /\ started' = started + 1
  /\ IF PostFindUnique(p) = Null
       THEN Respond(r, "comment", u, p, errorResponse("Post not found", 404))
       ELSE reqs' = [reqs EXCEPT ![r] = NewReq("comment", u, p, "comment_create", [id |-> p])]
  /\ UNCHANGED store

\* (mutant) the comment is written in the name of the post's owner
CommentCreate_AsPostOwner(r, fault) ==
  /\ reqs[r].pc = "comment_create"
  /\ LET q == reqs[r] IN
       IF fault = "create" \/ q.arg \notin DOMAIN posts
         THEN /\ Finish(r, GenericError)
              /\ UNCHANGED nextCommentId
         ELSE /\ reqs' = [reqs EXCEPT ![r].pc = "comment_count",
                            ![r].tx = [id |-> nextCommentId, postId |-> q.arg,
                                       userId |-> posts[q.arg].userId]]
              /\ nextCommentId' = nextCommentId + 1
  /\ UNCHANGED <<posts, likes, comments, follows, saves, users, clock, started>>

\* $transaction, first statement: tx.comment.create.  The new row is visible
\* to this transaction only until it commits; a throw rolls back, answered 500.
CommentCreate(r, fault) ==
  /\ reqs[r].pc = "comment_create"
  /\ LET q == reqs[r] IN
       IF fault = "create" \/ q.arg \notin DOMAIN posts
         THEN /\ Finish(r, GenericError)
              /\ UNCHANGED nextCommentId
         ELSE /\ reqs' = [reqs EXCEPT ![r].pc = "comment_count",
                            ![r].tx = [id |-> nextCommentId, postId |-> q.arg, userId |-> q.userId]]
              /\ nextCommentId' = nextCommentId + 1
  /\ UNCHANGED <<posts, likes, comments, follows, saves, users, clock, started>>

\* second statement: tx.comment.count({where: {postId}}) sees the committed
\* rows and this transaction's own insert ($transaction is called without an
\* isolationLevel: the store's default, READ COMMITTED on PostgreSQL)
CommentCount(r, fault) ==
  /\ reqs[r].pc = "comment_count"
  /\ LET q == reqs[r] IN
       IF fault = "count"
         THEN Finish(r, GenericError)
         ELSE reqs' = [reqs EXCEPT ![r].pc = "comment_set",
                         ![r].count = Cardinality(CommentsOf(comments \cup {q.tx}, q.arg))]
  /\ UNCHANGED <<store, started>>

\* (mutant) the counter write is not guarded: its throw rolls the transaction back
CommentSetCount_Propagates(r, fault) ==
  /\ reqs[r].pc = "comment_set"
  /\ LET q == reqs[r] IN
       IF fault = "update"
         THEN /\ Finish(r, GenericError)
              /\ UNCHANGED <<posts, comments>>
         ELSE /\ posts' = safeSetPostCommentCount(posts, q.arg, q.count, FALSE)
              /\ comments' = comments \cup {q.tx}
              /\ reqs' = [reqs EXCEPT ![r].pc = "comment_author", ![r].found = q.tx, ![r].tx = Null]
  /\ UNCHANGED <<likes, follows, saves, users, nextCommentId, clock, started>>

\* third statement: safeSetPostCommentCount, then the callback returns and the
\* transaction commits.  A throw of post.update is caught inside the helper, so
\* the callback still returns and the row is committed without the counter.
\* Under READ COMMITTED the update holds the post's row lock until the commit,
\* so update and commit are one step for every other transaction.
CommentSetCount(r, fault) ==
  /\ reqs[r].pc = "comment_set"
  /\ LET q == reqs[r] IN
       /\ posts' = safeSetPostCommentCount(posts, q.arg, q.count, fault = "update")
       /\ comments' = comments \cup {q.tx}
       /\ reqs' = [reqs EXCEPT ![r].pc = "comment_author", ![r].found = q.tx, ![r].tx = Null]
  /\ UNCHANGED <<likes, follows, saves, users, nextCommentId, clock, started>>

\* await prisma.user.findUnique (author for the response), then 201
CommentAuthor(r, fault) ==
  /\ reqs[r].pc = "comment_author"
  /\ LET q == reqs[r] IN
       IF fault = "author"
         THEN Finish(r, GenericError)
         ELSE Finish(r, successResponse(
                [id |-> q.found.id, isMine |-> TRUE], "Comment created", 201))
  /\ UNCHANGED <<store, started>>

\* ------------------------------------------------- DELETE /comments/:id
CommentFindUnique(id) ==
  IF \E c \in comments : c.id = id THEN CHOOSE c \in comments : c.id = id ELSE Null

\* (mutant) the author check is missing
CommentDeleteFind_NoAuthorCheck(r, u, id) ==
  /\ Free(r)
  /\ started' = started + 1
  /\ LET comment == CommentFindUnique(id) IN
       IF comment = Null
         THEN Respond(r, "uncomment", u, id, errorResponse("Comment not found", 404))
         ELSE reqs' = [reqs EXCEPT ![r] = NewReq("uncomment", u, id, "uncomment_delete", comment)]
  /\ UNCHANGED store

\* await prisma.comment.findUnique; 404 when missing, 403 for a foreign comment
CommentDeleteFind(r, u, id) ==
  /\ Free(r)
  /\ started' = started + 1
  /\ LET comment == CommentFindUnique(id) IN
       IF comment = Null
         THEN Respond(r, "uncomment", u, id, errorResponse("Comment not found", 404))
         ELSE IF comment.userId # u
           THEN Respond(r, "uncomment", u, id, errorResponse("Forbidden", 403))
           ELSE reqs' = [reqs EXCEPT ![r] = NewReq("uncomment", u, id, "uncomment_delete", comment)]
  /\ UNCHANGED store

\* another open transaction holds the row lock of comment id (its delete is not committed yet)
RowLocked(r, id) ==
  \E o \in Slots \ {r} :
    /\ reqs[o].op = "uncomment"
    /\ reqs[o].pc \in {"uncomment_count", "uncomment_set"}
    /\ reqs[o].tx.id = id

\* $transaction, first statement: tx.comment.delete waits for the row lock and
\* throws when the row is gone
CommentDelete(r, fault) ==
  /\ reqs[r].pc = "uncomment_delete"
  /\ ~RowLocked(r, reqs[r].arg)
  /\ LET q == reqs[r] IN
       IF fault = "delete" \/ q.found \notin comments
         THEN Finish(r, GenericError)
         ELSE reqs' = [reqs EXCEPT ![r].pc = "uncomment_count", ![r].tx = q.found]
  /\ UNCHANGED <<store, started>>

\* second statement: tx.comment.count({where: {postId: comment.postId}})
CommentDeleteCount(r, fault) ==
  /\ reqs[r].pc = "uncomment_count"
  /\ LET q == reqs[r] IN
       IF fault = "count"
         THEN Finish(r, GenericError)
         ELSE reqs' = [reqs EXCEPT ![r].pc = "uncomment_set",
                         ![r].count = Cardinality(CommentsOf(comments \ {q.tx}, q.found.postId))]
  /\ UNCHANGED <<store, started>>

\* third statement: safeSetPostCommentCount, commit, 200
CommentDeleteSetCount(r, fault) ==
  /\ reqs[r].pc = "uncomment_set"
  /\ LET q == reqs[r] IN
       /\ posts' = safeSetPostCommentCount(posts, q.found.postId, q.count, fault = "update")
       /\ comments' = comments \ {q.tx}
       /\ Finish(r, successResponse([deleted |-> TRUE], "Comment deleted", 200))
  /\ UNCHANGED <<likes, follows, saves, users, nextCommentId, clock, started>>

AnyCommentId == 1..MaxRequests

NextCommentSeq ==
  \/ \E r \in SeqSlots, u \in UserIds, p \in AnyPostId : CommentFindPost(r, u, p)
  \/ \E r \in SeqSlots : CommentCreate(r, "none")
  \/ \E r \in SeqSlots : CommentCount(r, "none")
  \/ \E r \in SeqSlots : CommentSetCount(r, "none")
  \/ \E r \in SeqSlots : CommentAuthor(r, "none")
  \/ \E r \in SeqSlots, u \in UserIds, id \in AnyCommentId : CommentDeleteFind(r, u, id)
  \/ \E r \in SeqSlots : CommentDelete(r, "none")
  \/ \E r \in SeqSlots : CommentDeleteCount(r, "none")
  \/ \E r \in SeqSlots : CommentDeleteSetCount(r, "none")

SpecCommentSeq == Init /\ [][NextCommentSeq]_vars

NextComment ==
  \/ \E r \in Slots, u \in UserIds, p \in AnyPostId : CommentFindPost(r, u, p)
  \/ \E r \in Slots : CommentCreate(r, "none")
  \/ \E r \in Slots : CommentCount(r, "none")
  \/ \E r \in Slots : CommentSetCount(r, "none")
  \/ \E r \in Slots : CommentAuthor(r, "none")
  \/ \E r \in Slots, u \in UserIds, id \in AnyCommentId : CommentDeleteFind(r, u, id)
  \/ \E r \in Slots : CommentDelete(r, "none")
  \/ \E r \in Slots : CommentDeleteCount(r, "none")
  \/ \E r \in Slots : CommentDeleteSetCount(r, "none")

SpecComment == Init /\ [][NextComment]_vars

\* sequential requests with store calls that may throw (connection loss,
\* schema mismatch): the fault names the statement that throws, "none" that none does
NextFault ==
  \/ \E r \in SeqSlots, u \in UserIds, p \in AnyPostId : LikeFindPost(r, u, p)
  \/ \E r \in SeqSlots : LikeFindLike(r)
  \/ \E r \in SeqSlots, f \in {"none", "create", "update"} : LikeTx(r, f)
  \/ \E r \in SeqSlots, u \in UserIds, p \in AnyPostId : UnlikeFindPost(r, u, p)
  \/ \E r \in SeqSlots : UnlikeFindLike(r)
  \/ \E r \in SeqSlots, f \in {"none", "delete", "update"} : UnlikeTx(r, f)
  \/ \E r \in SeqSlots, u \in UserIds, p \in AnyPostId : CommentFindPost(r, u, p)
  \/ \E r \in SeqSlots, f \in {"none", "create"} : CommentCreate(r, f)
  \/ \E r \in SeqSlots, f \in {"none", "count"} : CommentCount(r, f)
  \/ \E r \in SeqSlots, f \in {"none", "update"} : CommentSetCount(r, f)
  \/ \E r \in SeqSlots, f \in {"none", "author"} : CommentAuthor(r, f)
  \/ \E r \in SeqSlots, u \in UserIds, id \in AnyCommentId : CommentDeleteFind(r, u, id)
  \/ \E r \in SeqSlots, f \in {"none", "delete"} : CommentDelete(r, f)
  \/ \E r \in SeqSlots, f \in {"none", "count"} : CommentDeleteCount(r, f)
  \/ \E r \in SeqSlots, f \in {"none", "update"} : CommentDeleteSetCount(r, f)

SpecFault == Init /\ [][NextFault]_vars

\* sequential comment requests in which only the counter write may throw
NextCounterFault ==
  \/ \E r \in SeqSlots, u \in UserIds, p \in AnyPostId : CommentFindPost(r, u, p)
  \/ \E r \in SeqSlots : CommentCreate(r, "none")
  \/ \E r \in SeqSlots : CommentCount(r, "none")
  \/ \E r \in SeqSlots, f \in {"none", "update"} : CommentSetCount(r, f)
  \/ \E r \in SeqSlots : CommentAuthor(r, "none")
  \/ \E r \in SeqSlots, u \in UserIds, id \in AnyCommentId : CommentDeleteFind(r, u, id)
  \/ \E r \in SeqSlots : CommentDelete(r, "none")
  \/ \E r \in SeqSlots : CommentDeleteCount(r, "none")
  \/ \E r \in SeqSlots, f \in {"none", "update"} : CommentDeleteSetCount(r, f)

SpecCounterFault == Init /\ [][NextCounterFault]_vars

\* ------------------------------------------------ POST /follow/:username
\* helper ambil user by username: prisma.user.findUnique({where: {username}})
getUserByUsernameOr404(username) ==
  IF \E u \in users : u.username = username
    THEN CHOOSE u \in users : u.username = username
    ELSE Null

FollowRows(fs, a, b) == {f \in fs : f.followerId = a /\ f.followingId = b}

\* (mutant) create instead of upsert: a new row on every call
FollowUpsertRows_AlwaysCreate(fs, a, b, now) ==
  fs \cup {[followerId |-> a, followingId |-> b, createdAt |-> now]}

\* prisma.follow.upsert({where: followerId_followingId, update: {}, create: {...}}):
\* one store call; an existing row is kept as it is (update: {})
FollowUpsertRows(fs, a, b, now) ==
  IF FollowRows(fs, a, b) # {}
    THEN fs
    ELSE fs \cup {[followerId |-> a, followingId |-> b, createdAt |-> now]}

\* (mutant) the self-follow check is missing
FollowFindTarget_NoSelfCheck(r, a, username) ==
  /\ Free(r)
  /\ started' = started + 1
  /\ LET target == getUserByUsernameOr404(username) IN
       IF target = Null
         THEN Respond(r, "follow", a, username, errorResponse("User not found", 404))
         ELSE reqs' = [reqs EXCEPT ![r] = NewReq("follow", a, username, "follow_upsert", target)]
  /\ UNCHANGED store

\* target lookup; 404 for an unknown username, 400 for one's own
FollowFindTarget(r, a, username) ==
  /\ Free(r)
  /\ started' = started + 1
  /\ LET target == getUserByUsernameOr404(username) IN
       IF target = Null
         THEN Respond(r, "follow", a, username, errorResponse("User not found", 404))
         ELSE IF target.id = a
           THEN Respond(r, "follow", a, username, errorResponse("You cannot follow yourself", 400))
           ELSE reqs' = [reqs EXCEPT ![r] = NewReq("follow", a, username, "follow_upsert", target)]
  /\ UNCHANGED store

\* await prisma.follow.upsert, then {following: true}
FollowUpsert(r) ==
  /\ reqs[r].pc = "follow_upsert"
  /\ LET q == reqs[r] IN
       /\ follows' = FollowUpsertRows(follows, q.userId, q.found.id, clock)
       /\ clock' = IF follows' = follows THEN clock ELSE clock + 1
       /\ Finish(r, successResponse([following |-> TRUE], "Now following", 200))
  /\ UNCHANGED <<posts, likes, comments, saves, users, nextCommentId, started>>

\* ---------------------------------------------- DELETE /follow/:username
UnfollowFindTarget(r, a, username) ==
  /\ Free(r)
  /\ started' = started + 1
  /\ LET target == getUserByUsernameOr404(username) IN
       IF target = Null
         THEN Respond(r, "unfollow", a, username, errorResponse("User not found", 404))
         ELSE reqs' = [reqs EXCEPT ![r] = NewReq("unfollow", a, username, "unfollow_delete", target)]
  /\ UNCHANGED store

\* (mutant) the compound key is built with follower and target swapped
FollowDeleteRows_Swapped(fs, a, b, fails) ==
  IF fails THEN fs ELSE fs \ FollowRows(fs, b, a)

\* prisma.follow.delete({where: followerId_followingId}).catch(() => null):
\* the row is removed unless the call throws (row absent, or the store fails)
FollowDeleteRows(fs, a, b, fails) ==
  IF fails THEN fs ELSE fs \ FollowRows(fs, a, b)

\* await prisma.follow.delete(...).catch, then {following: false}
UnfollowDelete(r, fault) ==
  /\ reqs[r].pc = "unfollow_delete"
  /\ LET q == reqs[r] IN
       /\ follows' = FollowDeleteRows(follows, q.userId, q.found.id, fault = "delete")
       /\ Finish(r, successResponse([following |-> FALSE], "Unfollowed", 200))
  /\ UNCHANGED <<posts, likes, comments, saves, users, nextCommentId, clock, started>>

\* ------------------------------------------------- POST /posts/:id/save
SaveRow(u, p) == [userId |-> u, postId |-> p]

SaveFindPost(r, u, p) ==
  /\ Free(r)
  /\ started' = started + 1
  /\ LET post == PostFindUnique(p) IN
       IF post = Null
         THEN Respond(r, "save", u, p, errorResponse("Post not found", 404))
         ELSE reqs' = [reqs EXCEPT ![r] = NewReq("save", u, p, "save_upsert", post)]
  /\ UNCHANGED store

\* (mutant) a save is also counted as a like of the post
SaveUpsert_CountsAsLike(r) ==
  /\ reqs[r].pc = "save_upsert"
  /\ LET q == reqs[r] IN
       /\ saves' = saves \cup {SaveRow(q.userId, q.arg)}
       /\ posts' = [posts EXCEPT ![q.arg].likeCount = @ + 1]
       /\ Finish(r, successResponse([saved |-> TRUE], "Saved", 200))
  /\ UNCHANGED <<likes, comments, follows, users, nextCommentId, clock, started>>

\* await prisma.save.upsert({where: userId_postId, update: {}, create: {...}})
SaveUpsert(r) ==
  /\ reqs[r].pc = "save_upsert"
  /\ LET q == reqs[r] IN
       /\ saves' = saves \cup {SaveRow(q.userId, q.arg)}
       /\ Finish(r, successResponse([saved |-> TRUE], "Saved", 200))
  /\ UNCHANGED <<posts, likes, comments, follows, users, nextCommentId, clock, started>>

\* ----------------------------------------------- DELETE /posts/:id/save
\* await prisma.save.deleteMany({where: {userId, postId}}): no post lookup
Unsave(r, u, p) ==
  /\ Free(r)
  /\ started' = started + 1
  /\ saves' = {s \in saves : ~(s.userId = u /\ s.postId = p)}
  /\ Respond(r, "unsave", u, p, successResponse([saved |-> FALSE], "Unsaved", 200))
  /\ UNCHANGED <<posts, likes, comments, follows, users, nextCommentId, clock>>

\* a store filled by earlier requests: every user likes every post, every
\* post has one comment of its owner, every user follows every other user
InitSave ==
  /\ posts = [p \in PostIds |->
                [userId |-> OwnerOf(p), likeCount |-> NumUsers, commentCount |-> 1, createdAt |-> 0]]
  /\ likes = {LikeRow(u, p) : u \in UserIds, p \in PostIds}
  /\ comments = {[id |-> p, postId |-> p, userId |-> OwnerOf(p)] : p \in PostIds}
  /\ follows = {[followerId |-> a, followingId |-> b, createdAt |-> 0] :
                  a \in UserIds, b \in UserIds} \ {[followerId |-> a, followingId |-> a, createdAt |-> 0] : a \in UserIds}
  /\ saves = {}
  /\ users = UserTable
  /\ nextCommentId = NumPosts + 1
  /\ clock = 1
  /\ reqs = [r \in Slots |-> IdleReq]
  /\ started = 0

\* save and unsave requests of several clients
NextSave ==
  \/ \E r \in Slots, u \in UserIds, p \in AnyPostId : SaveFindPost(r, u, p)
  \/ \E r \in Slots : SaveUpsert(r)
  \/ \E r \in Slots, u \in UserIds, p \in AnyPostId : Unsave(r, u, p)

SpecSave == InitSave /\ [][NextSave]_vars

\* follow and unfollow requests of several clients
NextFollow ==
  \/ \E r \in Slots, a \in UserIds, n \in AnyUsername : FollowFindTarget(r, a, n)
  \/ \E r \in Slots : FollowUpsert(r)
  \/ \E r \in Slots, a \in UserIds, n \in AnyUsername : UnfollowFindTarget(r, a, n)
  \/ \E r \in Slots : UnfollowDelete(r, "none")

SpecFollow == Init /\ [][NextFollow]_vars

\* follow and unfollow requests of one client after another, with a
\* follow.delete that may throw although the row is there (connection loss)
NextFollowFault ==
  \/ \E r \in SeqSlots, a \in UserIds, n \in AnyUsername : FollowFindTarget(r, a, n)
  \/ \E r \in SeqSlots : FollowUpsert(r)
  \/ \E r \in SeqSlots, a \in UserIds, n \in AnyUsername : UnfollowFindTarget(r, a, n)
  \/ \E r \in SeqSlots, f \in {"none", "delete"} : UnfollowDelete(r, f)

SpecFollowFault == Init /\ [][NextFollowFault]_vars

\* ------------------------------------------------------- DELETE /posts/:id
\* (mutant) the owner check is missing
PostDeleteFind_NoOwnerCheck(r, u, p) ==
  /\ Free(r)
  /\ started' = started + 1
  /\ LET post == PostFindUnique(p) IN
       IF post = Null
         THEN Respond(r, "deletePost", u, p, errorResponse("Post not found", 404))
         ELSE reqs' = [reqs EXCEPT ![r] = NewReq("deletePost", u, p, "post_delete", post)]
  /\ UNCHANGED store

\* await prisma.post.findUnique({select: {userId}}); 404 when missing, 403
\* when post.userId !== req.user.id
PostDeleteFind(r, u, p) ==
  /\ Free(r)
  /\ started' = started + 1
  /\ LET post == PostFindUnique(p) IN
       IF post = Null
         THEN Respond(r, "deletePost", u, p, errorResponse("Post not found", 404))
         ELSE IF post.userId # u
           THEN Respond(r, "deletePost", u, p, errorResponse("Forbidden", 403))
           ELSE reqs' = [reqs EXCEPT ![r] = NewReq("deletePost", u, p, "post_delete", post)]
  /\ UNCHANGED store

\* what the schema (not among the sources) makes of a post that still has
\* Like, Comment or Save rows: the delete cascades to them, or it is refused
OnDeleteRules == {"cascade", "restrict"}

HasDependents(p) ==
  \/ LikesOf(likes, p) # {}
  \/ CommentsOf(comments, p) # {}
  \/ {v \in saves : v.postId = p} # {}

\* await prisma.post.delete({where: {id}}): throws when the row is gone or
\* the delete is refused (answered 500), else 200 {deleted: true}
PostDelete(r, rule) ==
  /\ reqs[r].pc = "post_delete"
  /\ LET p == reqs[r].arg IN
       IF p \notin DOMAIN posts \/ (rule = "restrict" /\ HasDependents(p))
         THEN /\ Finish(r, GenericError)
              /\ UNCHANGED <<posts, likes, comments, saves>>
         ELSE /\ posts' = [x \in DOMAIN posts \ {p} |-> posts[x]]
              /\ likes' = likes \ LikesOf(likes, p)
              /\ comments' = comments \ CommentsOf(comments, p)
              /\ saves' = {v \in saves : v.postId # p}
              /\ Finish(r, successResponse([deleted |-> TRUE], "Deleted", 200))
  /\ UNCHANGED <<follows, users, nextCommentId, clock, started>>

\* post-delete requests of several clients on a store with likes and comments
NextPostDelete ==
  \/ \E r \in Slots, u \in UserIds, p \in AnyPostId : PostDeleteFind(r, u, p)
  \/ \E r \in Slots, rule \in OnDeleteRules : PostDelete(r, rule)

SpecPostDelete == InitSave /\ [][NextPostDelete]_vars

\* ------------------------------------------------------------ pagination
\* query values the listings are asked for: ?page=1.., ?limit=1..
MaxPage == 2
MaxLimit == 2
Pages == 1..MaxPage
Limits == 1..MaxLimit

\* (mutant) the page count is rounded down
CeilDiv_Floor(total, limit) == total \div limit

\* Math.ceil(total / limit) for total >= 0 and limit >= 1
CeilDiv(total, limit) == (total + limit - 1) \div limit

\* the pagination object every listing answers with
pagination(page, limit, total) ==
  [page |-> page, limit |-> limit, total |-> total, totalPages |-> CeilDiv(total, limit)]

\* findMany({skip: (page - 1) * limit, take: limit}) on rows in their orderBy order
SkipTake(rows, page, limit) ==
  LET skip == (page - 1) * limit
      last == IF skip + limit < Len(rows) THEN skip + limit ELSE Len(rows)
  IN SubSeq(rows, skip + 1, last)

\* the orders in which the database may return the rows S for
\* orderBy: {createdAt: "desc"}; rows of equal key come in any order
Orderings(S, key) ==
  {s \in [1..Cardinality(S) -> S] :
     \A i \in DOMAIN s, j \in DOMAIN s :
       i < j => (s[i] # s[j] /\ key[s[i]] >= key[s[j]])}

\* ------------------------------------------------------------ POST /posts
ImageNone == "none"
ImageOk == "ok"
ImageRejected == "rejected"
Images == {ImageNone, ImageOk, ImageRejected}

\* the id the next created post gets (posts are never deleted where they are
\* created, so the sequence value is the row count plus one)
NextPostId == Cardinality(DOMAIN posts) + 1

\* toPostSummary: the counters are _count.likes and _count.comments
toPostSummary(id, likedByMe) ==
  [id |-> id, authorId |-> posts[id].userId, createdAt |-> posts[id].createdAt,
   likeCount |-> Cardinality(LikesOf(likes, id)),
   commentCount |-> Cardinality(CommentsOf(comments, id)),
   likedByMe |-> likedByMe]

\* 400 without a file, 500 "Upload failed" when the upload or the insert
\* throws, else one prisma.post.create for req.user.id
PostCreate(r, u, image) ==
  /\ Free(r)
  /\ started' = started + 1
  /\ image = ImageOk => NextPostId \in AnyPostId
  /\ IF image = ImageNone
       THEN /\ Respond(r, "createPost", u, 0, errorResponse("Image is required", 400))
            /\ UNCHANGED store
       ELSE IF image = ImageRejected
         THEN /\ Respond(r, "createPost", u, 0, errorResponse("Upload failed", 500))
              /\ UNCHANGED store
         ELSE /\ posts' = [p \in DOMAIN posts \cup {NextPostId} |->
                            IF p \in DOMAIN posts
                              THEN posts[p]
                              ELSE [userId |-> u, likeCount |-> 0, commentCount |-> 0,
                                    createdAt |-> clock]]
              /\ clock' = clock + 1
              /\ Respond(r, "createPost", u, NextPostId, successResponse(
                   [id |-> NextPostId, authorId |-> u, createdAt |-> clock,
                    likeCount |-> 0, commentCount |-> 0, likedByMe |-> FALSE],
                   "Created", 201))
              /\ UNCHANGED <<likes, comments, follows, saves, users, nextCommentId>>

\* ---------------------------------------------------------------- GET /feed
\* await prisma.follow.findMany({where: {followerId: meId}})
FeedFindFollowing(r, meId, page, limit) ==
  /\ Free(r)
  /\ started' = started + 1
  /\ reqs' = [reqs EXCEPT ![r] =
       NewReq("feed", meId, [page |-> page, limit |-> limit], "feed_findPosts",
              {f \in follows : f.followerId = meId})]
  /\ UNCHANGED store

\* (mutant) the viewer's own id is left out of the author ids
FeedAuthorIds_NoSelf(meId, following) == {f.followingId : f \in following}

\* ids = [meId, ...following.map((f) => f.followingId)]
FeedAuthorIds(meId, following) == {meId} \cup {f.followingId : f \in following}

\* the sort key of post rows
CreatedAtOfPost(rows) == [p \in rows |-> posts[p].createdAt]

\* await Promise.all([post.findMany, post.count]) over userId in ids, and the
\* answer: items with likedByMe = p.likes.length > 0, and the pagination
FeedFindPosts(r) ==
  /\ reqs[r].pc = "feed_findPosts"
  /\ LET q == reqs[r]
         ids == FeedAuthorIds(q.userId, q.found)
         rows == {p \in DOMAIN posts : posts[p].userId \in ids}
     IN \E ord \in Orderings(rows, CreatedAtOfPost(rows)) :
          LET shown == SkipTake(ord, q.arg.page, q.arg.limit) IN
            Finish(r, successResponse(
              [items |-> [i \in DOMAIN shown |->
                           toPostSummary(shown[i], LikeRow(q.userId, shown[i]) \in likes)],
               pagination |-> pagination(q.arg.page, q.arg.limit, Cardinality(rows))],
              "OK", 200))
  /\ UNCHANGED <<store, started>>

\* ----------------------------------------------------------- GET /posts/:id
\* the route runs no auth middleware, so req.user is undefined and
\* meId = req.user?.id || 0 is 0 whoever calls
DetailMeId == 0

\* await prisma.post.findUnique with likes: meId ? {where: {userId: meId}} : false
PostDetail(r, u, p) ==
  /\ Free(r)
  /\ started' = started + 1
  /\ LET meId == DetailMeId
         post == PostFindUnique(p)
     IN IF post = Null
          THEN Respond(r, "detail", u, p, errorResponse("Post not found", 404))
          ELSE Respond(r, "detail", u, p, successResponse(
                 toPostSummary(p, IF meId # 0 THEN LikeRow(meId, p) \in likes ELSE FALSE),
                 "OK", 200))
  /\ UNCHANGED store

\* follow, post, like, feed and detail requests of one client after another
NextFeed ==
  \/ \E r \in SeqSlots, a \in UserIds, n \in AnyUsername : FollowFindTarget(r, a, n)
  \/ \E r \in SeqSlots : FollowUpsert(r)
  \/ \E r \in SeqSlots, a \in UserIds, n \in AnyUsername : UnfollowFindTarget(r, a, n)
  \/ \E r \in SeqSlots : UnfollowDelete(r, "none")
  \/ \E r \in SeqSlots, u \in UserIds, p \in AnyPostId : LikeFindPost(r, u, p)
  \/ \E r \in SeqSlots : LikeFindLike(r)
  \/ \E r \in SeqSlots : LikeTx(r, "none")
  \/ \E r \in SeqSlots, u \in UserIds, p \in AnyPostId : UnlikeFindPost(r, u, p)
  \/ \E r \in SeqSlots : UnlikeFindLike(r)
  \/ \E r \in SeqSlots : UnlikeTx(r, "none")
  \/ \E r \in SeqSlots, u \in UserIds, i \in Images : PostCreate(r, u, i)
  \/ \E r \in SeqSlots, v \in UserIds, pg \in Pages, lm \in Limits : FeedFindFollowing(r, v, pg, lm)
  \/ \E r \in SeqSlots : FeedFindPosts(r)
  \/ \E r \in SeqSlots, u \in UserIds, p \in AnyPostId : PostDetail(r, u, p)

SpecFeed == Init /\ [][NextFeed]_vars

\* ------------------------------------------------------------- listings
\* optionalAuth: without a token, or with one that does not verify, req.user
\* stays unset and the viewer id is undefined
Anonymous == 0
Viewers == UserIds \cup {Anonymous}

\* the body of a listing answer (the code names the list users, posts,
\* comments or items)
listing(items, page, limit, total) ==
  successResponse([items |-> items, pagination |-> pagination(page, limit, total)], "OK", 200)

ListArg(key, page, limit) == [key |-> key, page |-> page, limit |-> limit]

\* the sort key of Follow rows
FollowCreatedAt(rows) == [f \in rows |-> f.createdAt]

\* Like, Save and Comment rows carry no createdAt in this model: the database
\* may return them in any order
AnyOrder(rows) == [x \in rows |-> 0]

\* userSummary with the map of buildViewerFollowMap
userSummary(u, viewerId) ==
  [id |-> u,
   isFollowedByMe |-> viewerId # Anonymous /\ FollowRows(follows, viewerId, u) # {}]

\* the answer of the four follower/following listings for the owner's edges
\* `rows`, `side` naming the user of each edge that is listed
FollowListing(r, op, viewer, key, page, limit, rows, side) ==
  \E ord \in Orderings(rows, FollowCreatedAt(rows)) :
    LET shown == SkipTake(ord, page, limit) IN
      Respond(r, op, viewer, ListArg(key, page, limit),
        listing([i \in DOMAIN shown |-> userSummary(shown[i][side], viewer)],
                page, limit, Cardinality(rows)))

\* the column of the listed user: rows.map((r) => r.follower) or r.following
FollowerOf == "followerId"
FollowingOf == "followingId"

\* GET /users/:username/followers
ListFollowers(r, viewer, username, page, limit) ==
  /\ Free(r)
  /\ started' = started + 1
  /\ LET owner == getUserByUsernameOr404(username) IN
       IF owner = Null
         THEN Respond(r, "followers", viewer, ListArg(username, page, limit),
                      errorResponse("User not found", 404))
         ELSE FollowListing(r, "followers", viewer, username, page, limit,
                            {f \in follows : f.followingId = owner.id}, FollowerOf)
  /\ UNCHANGED store

\* GET /users/:username/following
ListFollowing(r, viewer, username, page, limit) ==
  /\ Free(r)
  /\ started' = started + 1
  /\ LET owner == getUserByUsernameOr404(username) IN
       IF owner = Null
         THEN Respond(r, "following", viewer, ListArg(username, page, limit),
                      errorResponse("User not found", 404))
         ELSE FollowListing(r, "following", viewer, username, page, limit,
                            {f \in follows : f.followerId = owner.id}, FollowingOf)
  /\ UNCHANGED store

\* GET /me/followers
ListMyFollowers(r, u, page, limit) ==
  /\ Free(r)
  /\ started' = started + 1
  /\ FollowListing(r, "myFollowers", u, u, page, limit,
                   {f \in follows : f.followingId = u}, FollowerOf)
  /\ UNCHANGED store

\* GET /me/following
ListMyFollowing(r, u, page, limit) ==
  /\ Free(r)
  /\ started' = started + 1
  /\ FollowListing(r, "myFollowing", u, u, page, limit,
                   {f \in follows : f.followerId = u}, FollowingOf)
  /\ UNCHANGED store

\* (mutant) the two follow directions are mixed up
ListLikers_FlagsSwapped(r, viewer, p, page, limit) ==
  /\ Free(r)
  /\ started' = started + 1
  /\ IF PostFindUnique(p) = Null
       THEN Respond(r, "likers", viewer, ListArg(p, page, limit),
                    errorResponse("Post not found", 404))
       ELSE \E ord \in Orderings(LikesOf(likes, p), AnyOrder(LikesOf(likes, p))) :
              LET shown == SkipTake(ord, page, limit) IN
                Respond(r, "likers", viewer, ListArg(p, page, limit),
                  listing([i \in DOMAIN shown |->
                            LET x == shown[i].userId IN
                              [id |-> x,
                               isFollowedByMe |-> viewer # Anonymous /\ FollowRows(follows, x, viewer) # {},
                               isMe |-> viewer # Anonymous /\ x = viewer,
                               followsMe |-> viewer # Anonymous /\ FollowRows(follows, viewer, x) # {}]],
                          page, limit, Cardinality(LikesOf(likes, p))))
  /\ UNCHANGED store

\* GET /posts/:id/likes: the likers of a post with the viewer's relation flags
ListLikers(r, viewer, p, page, limit) ==
  /\ Free(r)
  /\ started' = started + 1
  /\ IF PostFindUnique(p) = Null
       THEN Respond(r, "likers", viewer, ListArg(p, page, limit),
                    errorResponse("Post not found", 404))
       ELSE \E ord \in Orderings(LikesOf(likes, p), AnyOrder(LikesOf(likes, p))) :
              LET shown == SkipTake(ord, page, limit) IN
                Respond(r, "likers", viewer, ListArg(p, page, limit),
                  listing([i \in DOMAIN shown |->
                            LET x == shown[i].userId IN
                              [id |-> x,
                               isFollowedByMe |-> viewer # Anonymous /\ FollowRows(follows, viewer, x) # {},
                               isMe |-> viewer # Anonymous /\ x = viewer,
                               followsMe |-> viewer # Anonymous /\ FollowRows(follows, x, viewer) # {}]],
                          page, limit, Cardinality(LikesOf(likes, p))))
  /\ UNCHANGED store

\* postSummary of users.js: counters from _count, likedByMe from the viewer's row
postSummary(p, viewerId) ==
  [id |-> p, authorId |-> posts[p].userId, createdAt |-> posts[p].createdAt,
   likeCount |-> Cardinality(LikesOf(likes, p)),
   commentCount |-> Cardinality(CommentsOf(comments, p)),
   likedByMe |-> viewerId # Anonymous /\ LikeRow(viewerId, p) \in likes]

\* toPostSummaryFromLike: the stored counters of the liked post
toPostSummaryFromLike(likeRow, likedByViewer) ==
  [id |-> likeRow.postId, authorId |-> posts[likeRow.postId].userId,
   createdAt |-> posts[likeRow.postId].createdAt,
   likeCount |-> posts[likeRow.postId].likeCount,
   commentCount |-> posts[likeRow.postId].commentCount,
   likedByMe |-> likedByViewer]

\* GET /api/users/:username/posts (users.js)
ListUserPosts(r, viewer, username, page, limit) ==
  /\ Free(r)
  /\ started' = started + 1
  /\ LET user == getUserByUsernameOr404(username) IN
       IF user = Null
         THEN Respond(r, "userPosts", viewer, ListArg(username, page, limit),
                      errorResponse("User not found", 404))
         ELSE LET rows == {p \in DOMAIN posts : posts[p].userId = user.id} IN
                \E ord \in Orderings(rows, CreatedAtOfPost(rows)) :
                  LET shown == SkipTake(ord, page, limit) IN
                    Respond(r, "userPosts", viewer, ListArg(username, page, limit),
                      listing([i \in DOMAIN shown |-> postSummary(shown[i], viewer)],
                              page, limit, Cardinality(rows)))
  /\ UNCHANGED store

\* GET /api/users/:username/likes (users.js): the posts a user liked
ListUserLikes(r, viewer, username, page, limit) ==
  /\ Free(r)
  /\ started' = started + 1
  /\ LET user == getUserByUsernameOr404(username) IN
       IF user = Null
         THEN Respond(r, "userLikes", viewer, ListArg(username, page, limit),
                      errorResponse("User not found", 404))
         ELSE LET rows == {l \in likes : l.userId = user.id} IN
                \E ord \in Orderings(rows, AnyOrder(rows)) :
                  LET shown == SkipTake(ord, page, limit) IN
                    Respond(r, "userLikes", viewer, ListArg(username, page, limit),
                      listing([i \in DOMAIN shown |-> postSummary(shown[i].postId, viewer)],
                              page, limit, Cardinality(rows)))
  /\ UNCHANGED store

\* GET /me/likes: the posts the caller liked, with the stored counters
ListMyLikes(r, u, page, limit) ==
  /\ Free(r)
  /\ started' = started + 1
  /\ LET rows == {l \in likes : l.userId = u} IN
       \E ord \in Orderings(rows, AnyOrder(rows)) :
         LET shown == SkipTake(ord, page, limit) IN
           Respond(r, "myLikes", u, ListArg(u, page, limit),
             listing([i \in DOMAIN shown |-> toPostSummaryFromLike(shown[i], TRUE)],
                     page, limit, Cardinality(rows)))
  /\ UNCHANGED store

\* GET /me/saved
ListSaved(r, u, page, limit) ==
  /\ Free(r)
  /\ started' = started + 1
  /\ LET rows == {v \in saves : v.userId = u} IN
       \E ord \in Orderings(rows, AnyOrder(rows)) :
         LET shown == SkipTake(ord, page, limit) IN
           Respond(r, "saved", u, ListArg(u, page, limit),
             listing([i \in DOMAIN shown |->
                       [id |-> shown[i].postId, createdAt |-> posts[shown[i].postId].createdAt]],
                     page, limit, Cardinality(rows)))
  /\ UNCHANGED store

\* GET /posts/:id/comments: no auth and no post lookup
ListComments(r, p, page, limit) ==
  /\ Free(r)
  /\ started' = started + 1
  /\ LET rows == CommentsOf(comments, p) IN
       \E ord \in Orderings(rows, AnyOrder(rows)) :
         LET shown == SkipTake(ord, page, limit) IN
           Respond(r, "comments", Anonymous, ListArg(p, page, limit),
             listing([i \in DOMAIN shown |-> [id |-> shown[i].id, authorId |-> shown[i].userId]],
                     page, limit, Cardinality(rows)))
  /\ UNCHANGED store

\* ------------------------------------------------------ GET /users/search
\* the text columns of the user rows, character by character
UsernameChars ==
  << <<"a", "l", "i", "c", "e">>, <<"b", "o", "b">>, <<"c", "a", "r", "o", "l">>,
     <<"d", "a", "v", "e">>, <<"e", "r", "i", "n">>, <<"f", "r", "a", "n", "k">> >>

NameChars ==
  << <<"A", "l", " ", "B">>, <<"B", "O", "B">>, <<"C", "y">>,
     <<"D", " ", " ", "V">>, <<"E", "d">>, <<"F", "o">> >>

\* ?q= values as sent, before any trimming
Queries ==
  { <<"b">>, <<"O", "b">>, <<"z", "z">>, <<" ", "b">>, <<"l", " ", " ", "b">>, <<"d", " ", " ", "v">> }

ToLower(c) ==
  CASE c = "A" -> "a" [] c = "B" -> "b" [] c = "C" -> "c" [] c = "D" -> "d"
    [] c = "E" -> "e" [] c = "F" -> "f" [] c = "O" -> "o" [] c = "V" -> "v"
    [] OTHER -> c

\* {contains: q, mode: "insensitive"}
ContainsInsensitive(text, q) ==
  \E i \in 0..(Len(text) - Len(q)) :
    \A k \in 1..Len(q) : ToLower(text[i + k]) = ToLower(q[k])

RECURSIVE DropLeadingSpaces(_)
DropLeadingSpaces(t) ==
  IF t # <<>> /\ Head(t) = " " THEN DropLeadingSpaces(Tail(t)) ELSE t

RECURSIVE DropTrailingSpaces(_)
DropTrailingSpaces(t) ==
  IF t # <<>> /\ t[Len(t)] = " " THEN DropTrailingSpaces(SubSeq(t, 1, Len(t) - 1)) ELSE t

RECURSIVE CollapseSpaces(_)
CollapseSpaces(t) ==
  IF Len(t) < 2
    THEN t
    ELSE IF t[1] = " " /\ t[2] = " "
      THEN CollapseSpaces(Tail(t))
      ELSE <<t[1]>> \o CollapseSpaces(Tail(t))

\* String(req.query.q || "").trim().replace(/\s+/g, " ")
NormalizeQuery(rawQ) == CollapseSpaces(DropTrailingSpaces(DropLeadingSpaces(rawQ)))

SearchLimitCap == 50

\* (mutant) only the username column is searched
SearchMatches_UsernameOnly(q) ==
  {u \in UserIds : ContainsInsensitive(UsernameChars[u], q)}

\* where: {OR: [{username: {contains}}, {name: {contains}}]}
SearchMatches(q) ==
  {u \in UserIds : \/ ContainsInsensitive(UsernameChars[u], q)
                    \/ ContainsInsensitive(NameChars[u], q)}

\* orderBy username asc: AllNames is in alphabetical order, so by id
UsernameOrder(rows) == [u \in rows |-> 0 - u]

SearchUsers(r, viewer, rawQ, page, limit) ==
  /\ Free(r)
  /\ started' = started + 1
  /\ LET q == NormalizeQuery(rawQ)
         lim == IF limit < SearchLimitCap THEN limit ELSE SearchLimitCap
         rows == SearchMatches(q)
     IN \E ord \in Orderings(rows, UsernameOrder(rows)) :
          LET shown == SkipTake(ord, page, lim) IN
            Respond(r, "search", viewer, ListArg(rawQ, page, limit),
              listing([i \in DOMAIN shown |-> userSummary(shown[i], viewer)],
                      page, lim, Cardinality(rows)))
  /\ UNCHANGED store

\* ------------------------------------------------------------- profiles
\* user._count.posts / followers / following: the relation counts of the
\* User row (posts owned, edges into the user, edges out of the user)
UserCountPosts(u) == Cardinality({p \in DOMAIN posts : posts[p].userId = u})
UserCountFollowers(u) == Cardinality({f \in follows : f.followingId = u})
UserCountFollowing(u) == Cardinality({f \in follows : f.followerId = u})

\* (mutant) the likes the user gave are counted
LikesReceived_Given(u) == Cardinality({l \in likes : l.userId = u})

\* prisma.like.count({where: {post: {userId}}})
LikesReceived(u) == Cardinality({l \in likes : posts[l.postId].userId = u})

\* GET /api/me
GetMe(r, userId) ==
  /\ Free(r)
  /\ started' = started + 1
  /\ IF userId \notin UserIds
       THEN Respond(r, "me", userId, userId, errorResponse("User not found", 404))
       ELSE Respond(r, "me", userId, userId, successResponse(
              [profile |-> [id |-> userId, username |-> UsernameOf(userId)],
               stats |-> [posts |-> Cardinality({p \in DOMAIN posts : posts[p].userId = userId}),
                          followers |-> Cardinality({f \in follows : f.followingId = userId}),
                          following |-> Cardinality({f \in follows : f.followerId = userId}),
                          likes |-> LikesReceived(userId)]],
              "OK", 200))
  /\ UNCHANGED store

\* GET /api/users/:username
GetUser(r, viewer, username) ==
  /\ Free(r)
  /\ started' = started + 1
  /\ LET user == getUserByUsernameOr404(username) IN
       IF user = Null
         THEN Respond(r, "profile", viewer, username, errorResponse("User not found", 404))
         ELSE Respond(r, "profile", viewer, username, successResponse(
                [id |-> user.id, username |-> user.username,
                 counts |-> [post |-> UserCountPosts(user.id),
                             followers |-> UserCountFollowers(user.id),
                             following |-> UserCountFollowing(user.id),
                             likes |-> LikesReceived(user.id)],
                 isFollowing |-> /\ viewer # Anonymous
                                 /\ viewer # user.id
                                 /\ FollowRows(follows, viewer, user.id) # {},
                 isMe |-> viewer = user.id],
                "OK", 200))
  /\ UNCHANGED store

\* a store filled by earlier requests: the users in fs follow every other
\* user; the users in ls (the first k users) like, save and comment every post
InitRead ==
  \E fs \in SUBSET UserIds, ls \in {1..k : k \in 0..NumUsers} :
    /\ posts = [p \in PostIds |->
                  [userId |-> OwnerOf(p), likeCount |-> Cardinality(ls),
                   commentCount |-> Cardinality(ls), createdAt |-> p \div 2]]
    /\ likes = {LikeRow(u, p) : u \in ls, p \in PostIds}
    /\ saves = {SaveRow(u, p) : u \in ls, p \in PostIds}
    /\ users = UserTable
    /\ comments = {[id |-> (p - 1) * NumUsers + u, postId |-> p, userId |-> u] :
                     u \in ls, p \in PostIds}
    /\ follows = {f \in [followerId : fs, followingId : UserIds, createdAt : {0}] :
                    f.followerId # f.followingId}
    /\ nextCommentId = NumUsers * NumPosts + 1
    /\ clock = 1
    /\ reqs = [r \in Slots |-> IdleReq]
    /\ started = 0

\* res.status(status).json(...) has gone out: the connection of the request is
\* closed and its slot is free again
Delivered(r) ==
  /\ reqs[r].pc = "done"
  /\ reqs' = [reqs EXCEPT ![r] = IdleReq]
  /\ UNCHANGED <<store, started>>

\* the slot a client waiting for no answer sends its next request on
ReadSlots == {r \in SeqSlots : reqs[r].pc = "idle"}

\* the read requests of one client, each sent after the answer to the one
\* before has been delivered
NextRead ==
  \/ \E r \in ReadSlots, v \in UserIds, pg \in Pages, lm \in Limits : FeedFindFollowing(r, v, pg, lm)
  \/ \E r \in SeqSlots : FeedFindPosts(r)
  \/ \E r \in ReadSlots, v \in Viewers, n \in AnyUsername, pg \in Pages, lm \in Limits :
       ListFollowers(r, v, n, pg, lm)
  \/ \E r \in ReadSlots, v \in Viewers, n \in AnyUsername, pg \in Pages, lm \in Limits :
       ListFollowing(r, v, n, pg, lm)
  \/ \E r \in ReadSlots, u \in UserIds, pg \in Pages, lm \in Limits : ListMyFollowers(r, u, pg, lm)
  \/ \E r \in ReadSlots, u \in UserIds, pg \in Pages, lm \in Limits : ListMyFollowing(r, u, pg, lm)
  \/ \E r \in ReadSlots, v \in Viewers, p \in AnyPostId, pg \in Pages, lm \in Limits :
       ListLikers(r, v, p, pg, lm)
  \/ \E r \in ReadSlots, v \in Viewers, n \in AnyUsername, pg \in Pages, lm \in Limits :
       ListUserLikes(r, v, n, pg, lm)
  \/ \E r \in ReadSlots, u \in UserIds, pg \in Pages, lm \in Limits : ListMyLikes(r, u, pg, lm)
  \/ \E r \in ReadSlots, u \in UserIds, pg \in Pages, lm \in Limits : ListSaved(r, u, pg, lm)
  \/ \E r \in ReadSlots, p \in AnyPostId, pg \in Pages, lm \in Limits : ListComments(r, p, pg, lm)
  \/ \E r \in ReadSlots, v \in Viewers, n \in AnyUsername, pg \in Pages, lm \in Limits :
       ListUserPosts(r, v, n, pg, lm)
  \/ \E r \in ReadSlots, v \in Viewers, q \in Queries, pg \in Pages, lm \in Limits :
       SearchUsers(r, v, q, pg, lm)
  \/ \E r \in ReadSlots, u \in UserIds : GetMe(r, u)
  \/ \E r \in ReadSlots, v \in Viewers, n \in AnyUsername : GetUser(r, v, n)
  \/ \E r \in SeqSlots : Delivered(r)

SpecRead == InitRead /\ [][NextRead]_vars

\* ------------------------------------------------------- authentication
\* The Authorization header as the words between single spaces, the second
\* word being a token.  A token is what jwt.verify looks at: its payload id,
\* whether its signature was made with JWT_SECRET, whether it has expired.
\* Tokens are held for the first user and the last.
TokenHolders == {1, NumUsers}
Tokens == [id : TokenHolders, signed : BOOLEAN, expired : BOOLEAN]

\* no header, a scheme without a token, a Bearer token, a token under another scheme
Headers ==
  {<<>>, <<"Bearer">>} \cup {<<s, t>> : s \in {"Bearer", "Token"}, t \in Tokens}

\* jwt.verify(token, process.env.JWT_SECRET): the payload, or an error
jwtVerify(token) ==
  IF token.signed /\ ~token.expired THEN [id |-> token.id] ELSE Null

\* authenticateToken: token = authHeader && authHeader.split(" ")[1]; 401
\* without a token, 403 when it does not verify, else req.user and next()
authenticateToken(header) ==
  LET token == IF Len(header) >= 2 THEN header[2] ELSE Null IN
    IF token = Null
      THEN [next |-> FALSE, res |-> errorResponse("Unauthorized", 401), user |-> Null]
      ELSE IF jwtVerify(token) = Null
        THEN [next |-> FALSE, res |-> errorResponse("Invalid token", 403), user |-> Null]
        ELSE [next |-> TRUE, res |-> NoResponse, user |-> jwtVerify(token)]

\* the routes registered with authenticateToken that write Follow, Like, Save
\* and Comment rows
ProtectedRoutes ==
  {"follow", "unfollow", "like", "unlike", "save", "unsave", "comment", "uncomment"}

\* the middleware answers itself and the handler is not called
Unauthenticated(r, route, header) ==
  /\ Free(r)
  /\ started' = started + 1
  /\ ~authenticateToken(header).next
  /\ Respond(r, "auth", 0, [route |-> route, header |-> header],
             authenticateToken(header).res)
  /\ UNCHANGED store

\* the headers the middleware lets through, and req.user.id for them
Admitted == {h \in Headers : authenticateToken(h).next}
ReqUserId(header) == authenticateToken(header).user.id

\* a store in which every kind of row exists and can be added: the first user
\* likes, saves and comments every post and follows everybody else
InitGate ==
  /\ posts = [p \in PostIds |->
                [userId |-> OwnerOf(p), likeCount |-> 1, commentCount |-> 1, createdAt |-> 0]]
  /\ likes = {LikeRow(1, p) : p \in PostIds}
  /\ saves = {SaveRow(1, p) : p \in PostIds}
  /\ users = UserTable
  /\ comments = {[id |-> p, postId |-> p, userId |-> 1] : p \in PostIds}
  /\ follows = {[followerId |-> 1, followingId |-> b, createdAt |-> 0] : b \in UserIds \ {1}}
  /\ nextCommentId = NumPosts + 1
  /\ clock = 1
  /\ reqs = [r \in Slots |-> IdleReq]
  /\ started = 0

\* the mutating requests of one client, each with the Authorization header it
\* was sent with and sent after the answer to the one before was delivered
NextGate ==
  \/ \E r \in ReadSlots, route \in ProtectedRoutes, h \in Headers : Unauthenticated(r, route, h)
  \/ \E r \in ReadSlots, h \in Admitted, n \in AnyUsername : FollowFindTarget(r, ReqUserId(h), n)
  \/ \E r \in SeqSlots : FollowUpsert(r)
  \/ \E r \in ReadSlots, h \in Admitted, n \in AnyUsername : UnfollowFindTarget(r, ReqUserId(h), n)
  \/ \E r \in SeqSlots : UnfollowDelete(r, "none")
  \/ \E r \in ReadSlots, h \in Admitted, p \in AnyPostId : LikeFindPost(r, ReqUserId(h), p)
  \/ \E r \in SeqSlots : LikeFindLike(r)
  \/ \E r \in SeqSlots : LikeTx(r, "none")
  \/ \E r \in ReadSlots, h \in Admitted, p \in AnyPostId : UnlikeFindPost(r, ReqUserId(h), p)
  \/ \E r \in SeqSlots : UnlikeFindLike(r)
  \/ \E r \in SeqSlots : UnlikeTx(r, "none")
  \/ \E r \in ReadSlots, h \in Admitted, p \in AnyPostId : SaveFindPost(r, ReqUserId(h), p)
  \/ \E r \in SeqSlots : SaveUpsert(r)
  \/ \E r \in ReadSlots, h \in Admitted, p \in AnyPostId : Unsave(r, ReqUserId(h), p)
  \/ \E r \in ReadSlots, h \in Admitted, p \in AnyPostId : CommentFindPost(r, ReqUserId(h), p)
  \/ \E r \in SeqSlots : CommentCreate(r, "none")
  \/ \E r \in SeqSlots : CommentCount(r, "none")
  \/ \E r \in SeqSlots : CommentSetCount(r, "none")
  \/ \E r \in SeqSlots : CommentAuthor(r, "none")
  \/ \E r \in ReadSlots, h \in Admitted, id \in AnyCommentId : CommentDeleteFind(r, ReqUserId(h), id)
  \/ \E r \in SeqSlots : CommentDelete(r, "none")
  \/ \E r \in SeqSlots : CommentDeleteCount(r, "none")
  \/ \E r \in SeqSlots : CommentDeleteSetCount(r, "none")
  \/ \E r \in SeqSlots : Delivered(r)

SpecGate == InitGate /\ [][NextGate]_vars

\* like and unlike requests of one client, each sent after the answer to the
\* one before was delivered, and between them the reads that answer with a
\* post's like count
NextCounts ==
  \/ \E r \in ReadSlots, u \in UserIds, p \in AnyPostId : LikeFindPost(r, u, p)
  \/ \E r \in SeqSlots : LikeFindLike(r)
  \/ \E r \in SeqSlots : LikeTx(r, "none")
  \/ \E r \in ReadSlots, u \in UserIds, p \in AnyPostId : UnlikeFindPost(r, u, p)
  \/ \E r \in SeqSlots : UnlikeFindLike(r)
  \/ \E r \in SeqSlots : UnlikeTx(r, "none")
  \/ \E r \in ReadSlots, v \in UserIds, pg \in Pages, lm \in Limits : FeedFindFollowing(r, v, pg, lm)
  \/ \E r \in SeqSlots : FeedFindPosts(r)
  \/ \E r \in ReadSlots, u \in UserIds, p \in AnyPostId : PostDetail(r, u, p)
  \/ \E r \in ReadSlots, v \in Viewers, n \in AnyUsername, pg \in Pages, lm \in Limits :
       ListUserPosts(r, v, n, pg, lm)
  \/ \E r \in ReadSlots, v \in Viewers, n \in AnyUsername, pg \in Pages, lm \in Limits :
       ListUserLikes(r, v, n, pg, lm)
  \/ \E r \in ReadSlots, u \in UserIds, pg \in Pages, lm \in Limits : ListMyLikes(r, u, pg, lm)
  \/ \E r \in SeqSlots : Delivered(r)

SpecCounts == Init /\ [][NextCounts]_vars

\* optionalAuth: the token is what follows "Bearer "; req.user is set when it
\* verifies, else the request goes on without it (viewerId = req.user?.id || null)
optionalAuth(header) ==
  IF Len(header) >= 2 /\ header[1] = "Bearer" /\ jwtVerify(header[2]) # Null
    THEN jwtVerify(header[2]).id
    ELSE Anonymous

\* GET /posts/:id/likes requests of one client, each with the Authorization
\* header it was sent with
NextLikers ==
  \/ \E r \in ReadSlots, h \in Headers, p \in AnyPostId, pg \in Pages, lm \in Limits :
       ListLikers(r, optionalAuth(h), p, pg, lm)
  \/ \E r \in SeqSlots : Delivered(r)

SpecLikers == InitRead /\ [][NextLikers]_vars

\* ------------------------------------------------- POST /auth/register
\* the values register and profile-update bodies carry: a username, an email
\* and a phone that are taken, and ones that nobody has
Fresh == NumUsers + 1
BodyUsernames == {UsernameOf(1), UsernameOf(Fresh)}
BodyEmails == {EmailOf(1), EmailOf(Fresh)}
BodyPhones == {NoPhone, PhoneOf(1), PhoneOf(Fresh)}

\* register bodies: all values fresh (with and without a phone), and one
\* taken value next to fresh ones
RegisterBodies ==
  {b \in [username : BodyUsernames, email : BodyEmails, phone : BodyPhones] :
     Cardinality({f \in {"username", "email", "phone"} :
                    \/ f = "username" /\ b.username = UsernameOf(1)
                    \/ f = "email" /\ b.email = EmailOf(1)
                    \/ f = "phone" /\ b.phone = PhoneOf(1)}) <= 1}

\* (mutant) a User table without unique indexes
UniqueViolations_None(us, id, username, email, phone) == {}

\* the unique constraints of the User table a row (id, username, email,
\* phone) would violate next to the rows of other ids; a null phone and a
\* column the write does not set (NoPhone, no username, no email) violate none
UniqueViolations(us, id, username, email, phone) ==
  {f \in {"username", "email", "phone"} :
     \E x \in us :
       /\ x.id # id
       /\ \/ f = "username" /\ username # "" /\ x.username = username
          \/ f = "email" /\ email # "" /\ x.email = email
          \/ f = "phone" /\ phone # NoPhone /\ x.phone = phone}

\* await prisma.user.findFirst({where: {OR: [{email}, {username}, ...(phone ?
\* [{phone}] : [])]}}): any one matching row; then the three checks in their order
RegisterFindFirst(r, username, email, phone) ==
  /\ Free(r)
  /\ started' = started + 1
  /\ LET body == [username |-> username, email |-> email, phone |-> phone]
         matching == {x \in users : \/ x.email = email
                                    \/ x.username = username
                                    \/ (phone # NoPhone /\ x.phone = phone)}
     IN IF matching = {}
          THEN reqs' = [reqs EXCEPT ![r] = NewReq("register", 0, body, "register_create", Null)]
          ELSE \E existing \in matching :
                 Respond(r, "register", 0, body,
                   IF existing.email = email
                     THEN errorResponse("Email already in use", 400)
                     ELSE IF existing.username = username
                       THEN errorResponse("Username already in use", 400)
                       ELSE errorResponse("Phone already in use", 400))
  /\ UNCHANGED store

\* `${field} already in use` for field = e.meta.target[0]
DuplicateMessage(field) ==
  CASE field = "username" -> "username already in use"
    [] field = "email" -> "email already in use"
    [] field = "phone" -> "phone already in use"

\* await bcrypt.hash, await prisma.user.create: P2002 on a unique constraint
\* is answered 400 with the constraint's field, else the row is inserted
\* under the next id (users are never deleted), 201
RegisterCreate(r) ==
  /\ reqs[r].pc = "register_create"
  /\ LET b == reqs[r].arg
         id == Cardinality(users) + 1
         violated == UniqueViolations(users, id, b.username, b.email, b.phone)
     IN IF violated # {}
          THEN /\ \E field \in violated : Finish(r, errorResponse(DuplicateMessage(field), 400))
               /\ UNCHANGED users
          ELSE /\ users' = users \cup {[id |-> id, username |-> b.username,
                                        email |-> b.email, phone |-> b.phone]}
               /\ Finish(r, successResponse([id |-> id, username |-> b.username], "Registered", 201))
  /\ UNCHANGED <<posts, likes, comments, follows, saves, nextCommentId, clock, started>>

\* ------------------------------------------------------------- PATCH /me
\* a body field that is not sent
NotSent == ""

\* profile-update bodies: a username, a phone or both, at most one of them taken
ProfileBodies ==
  {b \in [username : BodyUsernames \cup {NotSent}, phone : BodyPhones] :
     /\ ~(b.username = NotSent /\ b.phone = NotSent)
     /\ ~(b.username = UsernameOf(1) /\ b.phone = PhoneOf(1))}

\* if (username) await prisma.user.findFirst({where: {username, NOT: {id:
\* userId}}}); 400 when somebody else has it.  Without a username the handler
\* goes on to the update.
ProfileFindFirst(r, userId, username, phone) ==
  /\ Free(r)
  /\ started' = started + 1
  /\ LET body == [username |-> username, phone |-> phone]
         exists == username # NotSent /\ \E x \in users : x.username = username /\ x.id # userId
     IN IF exists
          THEN Respond(r, "patchMe", userId, body, errorResponse("Username already in use", 400))
          ELSE reqs' = [reqs EXCEPT ![r] = NewReq("patchMe", userId, body, "profile_update", Null)]
  /\ UNCHANGED store

\* await prisma.user.update({where: {id: userId}, data}): a throw (P2002) goes
\* to the catch, which answers errorResponse(res); else 200
ProfileUpdate(r) ==
  /\ reqs[r].pc = "profile_update"
  /\ LET q == reqs[r]
         b == q.arg
         violated == UniqueViolations(users, q.userId, b.username, NotSent, b.phone)
     IN IF violated # {}
          THEN /\ Finish(r, GenericError)
               /\ UNCHANGED users
          ELSE /\ users' = {IF x.id # q.userId THEN x
                            ELSE [x EXCEPT
                                    !.username = IF b.username # NotSent THEN b.username ELSE @,
                                    !.phone = IF b.phone # NotSent THEN b.phone ELSE @] : x \in users}
               /\ Finish(r, successResponse([id |-> q.userId], "Profile updated", 200))
  /\ UNCHANGED <<posts, likes, comments, follows, saves, nextCommentId, clock, started>>

\* register and profile-update requests of several clients, interleaved at
\* every await
NextUsers ==
  \/ \E r \in Slots, b \in RegisterBodies : RegisterFindFirst(r, b.username, b.email, b.phone)
  \/ \E r \in Slots : RegisterCreate(r)
  \/ \E r \in Slots, u \in TokenHolders, b \in ProfileBodies :
       ProfileFindFirst(r, u, b.username, b.phone)
  \/ \E r \in Slots : ProfileUpdate(r)

SpecUsers == Init /\ [][NextUsers]_vars

\* ------------------------------------------------------------ claims
LikeCountMatches ==
  \A p \in DOMAIN posts : posts[p].likeCount = Cardinality(LikesOf(likes, p))

CommentCountMatches ==
  \A p \in DOMAIN posts : posts[p].commentCount = Cardinality(CommentsOf(comments, p))

\* no request is being handled
AllDone == \A r \in Slots : reqs[r].pc \in {"idle", "done"}

\* C1: after any sequence of like and unlike requests, every post's stored
\* likeCount equals the number of Like rows of that post.
C1_LikeCountConsistent ==
  \A p \in DOMAIN posts : posts[p].likeCount = Cardinality({l \in likes : l.postId = p})

\* an unlike has removed a row while another Like row is still counted
C1_Witness ==
  /\ reqs[1].op = "unlike"
  /\ reqs[1].pc = "done"
  /\ reqs[1].res.message = "Unliked"
  /\ \E p \in DOMAIN posts : posts[p].likeCount >= 1

\* C2: after any sequence of comment-create and comment-delete requests, every
\* post's stored commentCount equals the number of its Comment rows.
C2_CommentCountConsistent ==
  \A p \in DOMAIN posts : posts[p].commentCount = Cardinality({c \in comments : c.postId = p})

\* a comment was deleted while another comment is still counted
C2_Witness ==
  /\ reqs[1].op = "uncomment"
  /\ reqs[1].pc = "done"
  /\ reqs[1].res.message = "Comment deleted"
  /\ \E p \in DOMAIN posts : posts[p].commentCount >= 1

\* C3: concurrent like and unlike requests of one user on one post race
\* safely: once all of them have finished, the post's likeCount equals the
\* number of its Like rows.
C3_ConcurrentLikeUnlikeSafe ==
  \A u \in UserIds, p \in DOMAIN posts :
    (/\ AllDone
     /\ \A r \in Slots : reqs[r].op \in {"like", "unlike"} /\ reqs[r].userId = u /\ reqs[r].arg = p)
    => posts[p].likeCount = Cardinality(LikesOf(likes, p))

\* C4: concurrent comment-create and comment-delete transactions on a post
\* leave, once all have committed, commentCount equal to the number of the
\* post's Comment rows.
C4_ConcurrentCommentsCounted == AllDone => CommentCountMatches

\* C5: likeCount is never negative, also from a store whose counter is below
\* the number of Like rows and with interleaved unlike requests.
C5_LikeCountNeverNegative == \A p \in DOMAIN posts : posts[p].likeCount >= 0

LikeCountChanged(p) == posts'[p].likeCount # posts[p].likeCount
CommentCountChanged(p) == posts'[p].commentCount # posts[p].commentCount

InTransaction(pc) ==
  pc \in {"like_tx", "unlike_tx", "comment_create", "comment_count",
          "uncomment_delete", "uncomment_count"}

C7_NoErrorWhenAlreadyInState ==
  \A r \in Slots :
    (reqs[r].pc = "done" /\ reqs[r].op \in {"follow", "unfollow", "like", "unlike", "save", "unsave"})
      => reqs[r].res.status # 500

FollowCallEnds(r) == reqs[r].pc # "done" /\ reqs'[r].pc = "done"

\* C8: follow(a,b) with b an existing user other than a leaves exactly one
\* edge a->b, leaves the edge set as it was when the edge already existed,
\* touches no other edge, and always returns {following: true}.
C8_FollowIdempotent ==
  [][\A r \in Slots, a \in UserIds, b \in UserIds :
       (/\ FollowCallEnds(r)
        /\ reqs'[r].op = "follow"
        /\ reqs'[r].userId = a
        /\ reqs'[r].arg = UsernameOf(b)
        /\ a # b)
       => /\ Cardinality(FollowRows(follows', a, b)) = 1
          /\ FollowRows(follows, a, b) # {} => follows' = follows
          /\ follows' \ FollowRows(follows', a, b) = follows \ FollowRows(follows, a, b)
          /\ reqs'[r].res.status = 200
          /\ reqs'[r].res.data = [following |-> TRUE]]_vars

\* two follow(a,b) calls have both answered and one edge a->b is stored
C8_Witness ==
  \E r1 \in Slots, r2 \in Slots, a \in UserIds, b \in UserIds :
    /\ r1 # r2
    /\ \A r \in {r1, r2} :
         /\ reqs[r].op = "follow"
         /\ reqs[r].pc = "done"
         /\ reqs[r].userId = a
         /\ reqs[r].arg = UsernameOf(b)
         /\ reqs[r].res.status = 200
    /\ Cardinality(FollowRows(follows, a, b)) = 1

\* C9: unfollow(a,b) with b an existing user removes the edge a->b if present,
\* changes no other edge, changes nothing when the edge is absent, and always
\* returns {following: false}.
C9_UnfollowIdempotent ==
  [][\A r \in Slots, a \in UserIds, b \in UserIds :
       (/\ FollowCallEnds(r)
        /\ reqs'[r].op = "unfollow"
        /\ reqs'[r].userId = a
        /\ reqs'[r].arg = UsernameOf(b))
       => /\ FollowRows(follows', a, b) = {}
          /\ follows' = follows \ FollowRows(follows, a, b)
          /\ FollowRows(follows, a, b) = {} => follows' = follows
          /\ reqs'[r].res.status = 200
          /\ reqs'[r].res.data = [following |-> FALSE]]_vars

\* two unfollow(a,b) calls have both answered after the edge a->b had been
\* created: the edge is gone
C9_Witness ==
  \E r1 \in Slots, r2 \in Slots, a \in UserIds, b \in UserIds :
    /\ r1 # r2
    /\ \A r \in {r1, r2} :
         /\ reqs[r].op = "unfollow"
         /\ reqs[r].pc = "done"
         /\ reqs[r].userId = a
         /\ reqs[r].arg = UsernameOf(b)
         /\ reqs[r].res.status = 200
    /\ clock = 2
    /\ follows = {}

\* C10: follow(a,a) fails with 400 and creates no edge; no stored Follow edge
\* has followerId = followingId.
C10_NoSelfFollow ==
  /\ \A f \in follows : f.followerId # f.followingId
  /\ \A r \in Slots :
       (/\ reqs[r].op = "follow"
        /\ reqs[r].pc = "done"
        /\ reqs[r].arg = UsernameOf(reqs[r].userId))
       => (reqs[r].res.status = 400 /\ reqs[r].res.message = "You cannot follow yourself")

\* a self-follow was answered 400 while other edges are stored
C10_Witness ==
  \E r \in Slots :
    /\ reqs[r].op = "follow"
    /\ reqs[r].pc = "done"
    /\ reqs[r].arg = UsernameOf(reqs[r].userId)
    /\ reqs[r].res.status = 400
    /\ follows # {}

\* the handler in slot r answers in this step: it was running, or a request
\* arrived in this step and r, the lowest free slot, took it
CallEnds(r, op) ==
  /\ reqs'[r].pc = "done"
  /\ reqs'[r].op = op
  /\ \/ reqs[r].pc # "done"
     \/ /\ started' # started
        /\ \A o \in Slots : o < r => reqs[o].pc \notin {"idle", "done"}

\* C11: with calls made one at a time, like(u,p) on an existing post without
\* the edge (u,p) inserts exactly that edge, raises p's likeCount by exactly 1
\* and returns the new counter; with the edge present it changes neither the
\* Like rows nor any counter and returns p's stored counter with "Already
\* liked" (so a second like leaves the state of the first).
C11_LikeContract ==
  [][\A r \in SeqSlots, u \in UserIds, p \in PostIds :
       (/\ CallEnds(r, "like")
        /\ reqs'[r].userId = u
        /\ reqs'[r].arg = p
        /\ p \in DOMAIN posts)
       => IF [userId |-> u, postId |-> p] \notin likes
            THEN /\ likes' = likes \cup {[userId |-> u, postId |-> p]}
                 /\ posts' = [posts EXCEPT ![p].likeCount = posts[p].likeCount + 1]
                 /\ reqs'[r].res =
                      [status |-> 200, message |-> "Liked",
                       data |-> [liked |-> TRUE, likeCount |-> posts[p].likeCount + 1]]
            ELSE /\ likes' = likes
                 /\ posts' = posts
                 /\ reqs'[r].res =
                      [status |-> 200, message |-> "Already liked",
                       data |-> [liked |-> TRUE, likeCount |-> posts[p].likeCount]]]_vars

\* a repeated like was answered "Already liked" with the counter at 2 (both
\* users like the post), the rows and the counter being those of the first like
C11_Witness ==
  /\ reqs[1].op = "like"
  /\ reqs[1].pc = "done"
  /\ reqs[1].res.message = "Already liked"
  /\ reqs[1].res.data.likeCount = 2
  /\ posts[reqs[1].arg].likeCount = 2

\* C12: with calls made one at a time, unlike(u,p) on an existing post
\* without the edge (u,p) changes neither the Like rows nor any counter and
\* returns p's stored counter with "Already unliked"; after any unlike the
\* edge is absent, so a second unlike leaves the state of the first.
C12_UnlikeContract ==
  [][\A r \in SeqSlots, u \in UserIds, p \in PostIds :
       (/\ CallEnds(r, "unlike")
        /\ reqs'[r].userId = u
        /\ reqs'[r].arg = p
        /\ p \in DOMAIN posts)
       => /\ [userId |-> u, postId |-> p] \notin likes'
          /\ [userId |-> u, postId |-> p] \notin likes
               => /\ likes' = likes
                  /\ posts' = posts
                  /\ reqs'[r].res =
                       [status |-> 200, message |-> "Already unliked",
                        data |-> [liked |-> FALSE, likeCount |-> posts[p].likeCount]]]_vars

\* an unlike of an absent edge was answered "Already unliked" with the counter
\* of the other user's like
C12_Witness ==
  /\ reqs[1].op = "unlike"
  /\ reqs[1].pc = "done"
  /\ reqs[1].res.message = "Already unliked"
  /\ reqs[1].res.data.likeCount = 1
  /\ posts[reqs[1].arg].likeCount = 1

\* C13: save(u,p) on an existing post leaves exactly the stored Save rows plus
\* (u,p), and leaves them as they were when (u,p) was already saved;
\* unsave(u,p) leaves exactly the stored rows minus (u,p), and leaves them as
\* they were when (u,p) was not saved; no step of either handler changes a
\* post's likeCount or commentCount, a Like row, a Comment row or a Follow edge.
C13_SaveToggleFrame ==
  [][/\ posts' = posts
     /\ likes' = likes
     /\ comments' = comments
     /\ follows' = follows
     /\ \A r \in Slots, u \in UserIds, p \in PostIds :
          /\ (CallEnds(r, "save") /\ reqs'[r].userId = u /\ reqs'[r].arg = p)
               => /\ saves' = saves \cup {[userId |-> u, postId |-> p]}
                  /\ [userId |-> u, postId |-> p] \in saves => saves' = saves
                  /\ reqs'[r].res.data = [saved |-> TRUE]
          /\ (CallEnds(r, "unsave") /\ reqs'[r].userId = u /\ reqs'[r].arg = p)
               => /\ saves' = saves \ {[userId |-> u, postId |-> p]}
                  /\ [userId |-> u, postId |-> p] \notin saves => saves' = saves
                  /\ reqs'[r].res.data = [saved |-> FALSE]]_vars

\* two saves of one (u,p) have both answered: exactly the row (u,p) is
\* stored, next to the Like rows and Follow edges of the filled store
C13_Witness ==
  \E r1 \in Slots, r2 \in Slots :
    /\ r1 # r2
    /\ \A r \in {r1, r2} : reqs[r].op = "save" /\ reqs[r].pc = "done" /\ reqs[r].res.status = 200
    /\ reqs[r1].userId = reqs[r2].userId
    /\ reqs[r1].arg = reqs[r2].arg
    /\ saves = {SaveRow(reqs[r1].userId, reqs[r1].arg)}
    /\ likes # {}
    /\ follows # {}

\* v follows b
Follows(v, b) == \E f \in follows : f.followerId = v /\ f.followingId = b

\* C14: the feed of v answers 200 with posts whose author is v or a user v
\* follows, each post once, newest first; it is the requested page of all
\* such posts, so a viewer who follows nobody gets exactly their own posts.
C14_FeedComposition ==
  [][\A r \in SeqSlots, v \in UserIds :
       (CallEnds(r, "feed") /\ reqs'[r].userId = v)
       => LET res == reqs'[r].res
              items == res.data.items
              page == reqs'[r].arg.page
              limit == reqs'[r].arg.limit
              cand == {p \in DOMAIN posts : posts[p].userId = v \/ Follows(v, posts[p].userId)}
              own == {p \in DOMAIN posts : posts[p].userId = v}
              rest == Cardinality(cand) - (page - 1) * limit
          IN /\ res.status = 200
             /\ \A i \in DOMAIN items :
                  /\ items[i].id \in cand
                  /\ items[i].authorId = posts[items[i].id].userId
                  /\ items[i].authorId = v \/ Follows(v, items[i].authorId)
             /\ \A i \in DOMAIN items, j \in DOMAIN items :
                  i < j => /\ items[i].id # items[j].id
                           /\ items[i].createdAt >= items[j].createdAt
             /\ Len(items) = IF rest <= 0 THEN 0 ELSE IF rest < limit THEN rest ELSE limit
             /\ (page = 1 /\ Cardinality(cand) <= limit)
                  => {items[i].id : i \in DOMAIN items} = cand
             /\ (\A b \in UserIds : ~Follows(v, b)) => cand = own]_vars

\* a feed answered two posts of different authors, the newer one (created
\* after the follow) first
C14_Witness ==
  /\ reqs[1].op = "feed"
  /\ reqs[1].pc = "done"
  /\ Len(reqs[1].res.data.items) = 2
  /\ reqs[1].res.data.items[1].authorId # reqs[1].res.data.items[2].authorId
  /\ reqs[1].res.data.items[1].createdAt > reqs[1].res.data.items[2].createdAt
  /\ follows # {}

\* C15: with A following B and P a post of B: a feed of A that has room for
\* P shows it, with likedByMe true exactly when A's Like row on P is stored;
\* A's like of the unliked P leaves likeCount 1; a post-detail call by A
\* shows likedByMe true exactly when A's Like row on P is stored; A's
\* unlike of P, liked by A alone, leaves likeCount 0.
C15_FollowLikeScenario ==
  [][\A r \in SeqSlots, A \in UserIds, P \in AnyPostId :
       (/\ P \in DOMAIN posts
        /\ posts[P].userId # A
        /\ Follows(A, posts[P].userId)
        /\ reqs'[r].userId = A)
       => /\ CallEnds(r, "feed")
               => LET items == reqs'[r].res.data.items
                      pg == reqs'[r].res.data.pagination
                  IN /\ (pg.page = 1 /\ pg.total <= pg.limit)
                          => \E i \in DOMAIN items : items[i].id = P
                     /\ \A i \in DOMAIN items :
                          items[i].id = P
                            => /\ items[i].likedByMe = (LikeRow(A, P) \in likes)
                               /\ items[i].likeCount = posts[P].likeCount
          /\ (CallEnds(r, "like") /\ reqs'[r].arg = P /\ LikesOf(likes, P) = {})
               => posts'[P].likeCount = 1
          /\ (CallEnds(r, "detail") /\ reqs'[r].arg = P)
               => reqs'[r].res.data.likedByMe = (LikeRow(A, P) \in likes)
          /\ (CallEnds(r, "unlike") /\ reqs'[r].arg = P /\ LikesOf(likes, P) = {LikeRow(A, P)})
               => posts'[P].likeCount = 0]_vars

ListingOps ==
  {"feed", "followers", "following", "myFollowers", "myFollowing", "likers",
   "userLikes", "myLikes", "saved", "comments", "userPosts", "search"}

\* the user or post a listing is asked about exists
ListingTargetExists(q) ==
  CASE q.op \in {"followers", "following", "userLikes", "userPosts"}
         -> \E u \in UserIds : UsernameOf(u) = q.arg.key
    [] q.op = "likers" -> q.arg.key \in DOMAIN posts
    [] OTHER -> TRUE

\* the number of rows the listing of request q ranges over, from the tables
ListingResultCount(q) ==
  CASE q.op = "feed"
         -> Cardinality({p \in DOMAIN posts :
                           posts[p].userId = q.userId \/ Follows(q.userId, posts[p].userId)})
    [] q.op = "followers"
         -> Cardinality({f \in follows : UsernameOf(f.followingId) = q.arg.key})
    [] q.op = "following"
         -> Cardinality({f \in follows : UsernameOf(f.followerId) = q.arg.key})
    [] q.op = "myFollowers" -> Cardinality({f \in follows : f.followingId = q.userId})
    [] q.op = "myFollowing" -> Cardinality({f \in follows : f.followerId = q.userId})
    [] q.op = "likers" -> Cardinality({l \in likes : l.postId = q.arg.key})
    [] q.op = "userLikes" -> Cardinality({l \in likes : UsernameOf(l.userId) = q.arg.key})
    [] q.op = "myLikes" -> Cardinality({l \in likes : l.userId = q.userId})
    [] q.op = "saved" -> Cardinality({v \in saves : v.userId = q.userId})
    [] q.op = "comments" -> Cardinality({c \in comments : c.postId = q.arg.key})
    [] q.op = "userPosts"
         -> Cardinality({p \in DOMAIN posts : UsernameOf(posts[p].userId) = q.arg.key})
    [] q.op = "search" -> Cardinality(SearchMatches(NormalizeQuery(q.arg.key)))

\* C16: every paginated listing asked about an existing user or post answers
\* 200 with total = the number of rows it ranges over and totalPages = the
\* least n with n * limit >= total; when (page - 1) * limit >= total the
\* item list is empty.
C16_PageBeyondResults ==
  [][\A r \in SeqSlots :
       (/\ reqs'[r].pc = "done"
        /\ reqs[r].pc # "done"
        /\ reqs'[r].op \in ListingOps
        /\ ListingTargetExists(reqs'[r]))
       => LET res == reqs'[r].res
              pg == res.data.pagination
              total == ListingResultCount(reqs'[r])
          IN /\ res.status = 200
             /\ pg.page = reqs'[r].arg.page
             /\ pg.limit = reqs'[r].arg.limit
             /\ pg.total = total
             /\ pg.totalPages * pg.limit >= total
             /\ (pg.totalPages - 1) * pg.limit < total
             /\ pg.totalPages >= 0
             /\ (pg.page - 1) * pg.limit >= total => res.data.items = <<>>
             /\ (pg.page - 1) * pg.limit < total => res.data.items # <<>>]_vars

\* the followers listing answered page 2 of a one-row result: no items,
\* total 1, one page
C16_Witness ==
  /\ reqs[1].op = "followers"
  /\ reqs[1].pc = "done"
  /\ reqs[1].res.status = 200
  /\ reqs[1].arg.page = 2
  /\ reqs[1].arg.limit = 2
  /\ reqs[1].res.data.items = <<>>
  /\ reqs[1].res.data.pagination.total = 1
  /\ reqs[1].res.data.pagination.totalPages = 1

\* the users whose username or name contains the text q, letter case aside
UsersContaining(q) ==
  {u \in UserIds :
     \/ \E i \in 0..(Len(UsernameChars[u]) - Len(q)) :
          \A k \in 1..Len(q) : ToLower(UsernameChars[u][i + k]) = ToLower(q[k])
     \/ \E i \in 0..(Len(NameChars[u]) - Len(q)) :
          \A k \in 1..Len(q) : ToLower(NameChars[u][i + k]) = ToLower(q[k])}

\* the answer of a search ranges over exactly the users in `matching`
SearchAnswers(q, matching) ==
  LET res == q.res
      ids == {res.data.items[i].id : i \in DOMAIN res.data.items}
  IN /\ res.status = 200
     /\ res.data.pagination.total = Cardinality(matching)
     /\ ids \subseteq matching
     /\ Cardinality(ids) = Len(res.data.items)
     /\ (q.arg.page = 1 /\ Cardinality(matching) <= q.arg.limit) => ids = matching
     /\ matching = {} => /\ res.data.items = <<>>
                          /\ res.data.pagination.total = 0
                          /\ res.data.pagination.totalPages = 0

\* C17 (as stated): a search answers 200, never 404, ranging over exactly the
\* users whose username or name contains the query as sent, letter case
\* aside; with no such user it answers users = [], total 0, totalPages 0.
C17_SearchExactMatches ==
  [][\A r \in SeqSlots :
       (reqs'[r].pc = "done" /\ reqs[r].pc # "done" /\ reqs'[r].op = "search")
       => SearchAnswers(reqs'[r], UsersContaining(reqs'[r].arg.key))]_vars

\* C17 (amended): a search answers 200, never 404, ranging over exactly the
\* users whose username or name contains, letter case aside, the query with
\* its outer whitespace trimmed and each inner run of whitespace collapsed to
\* one space; with no such user it answers users = [], total 0, totalPages 0.
C17_SearchNormalizedMatches ==
  [][\A r \in SeqSlots :
       (reqs'[r].pc = "done" /\ reqs[r].pc # "done" /\ reqs'[r].op = "search")
       => SearchAnswers(reqs'[r], UsersContaining(NormalizeQuery(reqs'[r].arg.key)))]_vars

\* the query "l  b" (two spaces) was answered with the one user whose name
\* contains "l b"
C17_Witness ==
  /\ reqs[1].op = "search"
  /\ reqs[1].pc = "done"
  /\ reqs[1].arg.key = <<"l", " ", " ", "b">>
  /\ Len(reqs[1].res.data.items) = 1
  /\ reqs[1].res.data.items[1].id = 1
  /\ reqs[1].res.data.pagination.totalPages = 1

\* C18: GET /me and GET /users/:username answer, for the same user u, the
\* same four counts: posts owned by u, Follow edges into u, Follow edges out
\* of u, and Like rows on posts owned by u.
C18_ProfileCounts ==
  [][\A r \in SeqSlots, u \in UserIds :
       LET nPosts == Cardinality({p \in DOMAIN posts : posts[p].userId = u})
           nFollowers == Cardinality({f \in follows : f.followingId = u})
           nFollowing == Cardinality({f \in follows : f.followerId = u})
           nLikes == Cardinality({l \in likes : posts[l.postId].userId = u})
       IN /\ (CallEnds(r, "me") /\ reqs'[r].userId = u)
               => /\ reqs'[r].res.status = 200
                  /\ reqs'[r].res.data.stats =
                       [posts |-> nPosts, followers |-> nFollowers,
                        following |-> nFollowing, likes |-> nLikes]
          /\ (CallEnds(r, "profile") /\ reqs'[r].arg = UsernameOf(u))
               => /\ reqs'[r].res.status = 200
                  /\ reqs'[r].res.data.counts =
                       [post |-> nPosts, followers |-> nFollowers,
                        following |-> nFollowing, likes |-> nLikes]]_vars

\* a profile was answered whose four counts differ from one another in
\* followers/following and show received likes
C18_Witness ==
  /\ reqs[1].op = "profile"
  /\ reqs[1].pc = "done"
  /\ reqs[1].res.status = 200
  /\ reqs[1].res.data.counts.followers # reqs[1].res.data.counts.following
  /\ reqs[1].res.data.counts.likes > 0
  /\ reqs[1].res.data.counts.post > 0

\* C19: only a request of the owner removes a post, and no request changes a
\* post that stays; a delete request for a post of another user is answered
\* 403 with the posts, likes and comments unchanged; a delete request for a
\* post id that does not exist is answered 404 with everything unchanged.
C19_PostDeleteOwnerOnly ==
  [][/\ \A p \in DOMAIN posts :
          IF p \in DOMAIN posts'
            THEN posts'[p] = posts[p]
            ELSE \E r \in Slots :
                   /\ CallEnds(r, "deletePost")
                   /\ reqs'[r].arg = p
                   /\ reqs'[r].userId = posts[p].userId
                   /\ reqs'[r].res.status = 200
     /\ \A r \in Slots, u \in UserIds, p \in AnyPostId :
          (/\ CallEnds(r, "deletePost")
           /\ reqs[r].pc # "post_delete"
           /\ reqs'[r].userId = u
           /\ reqs'[r].arg = p)
          => /\ (p \in DOMAIN posts /\ posts[p].userId # u)
                  => /\ reqs'[r].res.status = 403
                     /\ reqs'[r].res.message = "Forbidden"
                     /\ posts' = posts /\ likes' = likes /\ comments' = comments
             /\ p \notin DOMAIN posts
                  => /\ reqs'[r].res.status = 404
                     /\ posts' = posts /\ likes' = likes /\ comments' = comments]_vars

\* a foreign delete was answered 403 and the owner's delete of another post
\* 200: one post is gone, the refused one is there with its likes
C19_Witness ==
  \E r1 \in Slots, r2 \in Slots :
    /\ reqs[r1].op = "deletePost" /\ reqs[r1].pc = "done" /\ reqs[r1].res.status = 403
    /\ reqs[r2].op = "deletePost" /\ reqs[r2].pc = "done" /\ reqs[r2].res.status = 200
    /\ reqs[r1].arg \in DOMAIN posts
    /\ reqs[r2].arg \notin DOMAIN posts
    /\ LikesOf(likes, reqs[r1].arg) # {}

\* C20: with calls made one at a time, only a request of its author removes
\* a comment; a delete request for a comment of another user is answered 403
\* with the Comment rows and every commentCount unchanged; the author's
\* request removes exactly that comment and leaves the parent post's
\* commentCount at the number of its remaining comments.
C20_CommentDeleteAuthorOnly ==
  [][/\ \A c \in comments \ comments' :
          /\ comments \ comments' = {c}
          /\ \E r \in SeqSlots :
               /\ CallEnds(r, "uncomment")
               /\ reqs'[r].arg = c.id
               /\ reqs'[r].userId = c.userId
     /\ \A r \in SeqSlots, c \in comments :
          (CallEnds(r, "uncomment") /\ reqs'[r].arg = c.id)
          => IF reqs'[r].userId # c.userId
               THEN /\ reqs'[r].res.status = 403
                    /\ reqs'[r].res.message = "Forbidden"
                    /\ comments' = comments
                    /\ posts' = posts
               ELSE /\ reqs'[r].res.status = 200
                    /\ comments' = comments \ {c}
                    /\ posts' = [posts EXCEPT ![c.postId].commentCount =
                                   Cardinality({d \in comments \ {c} : d.postId = c.postId})]]_vars

\* a delete request for another user's comment was answered 403 while two
\* comments are stored and counted
C20_Witness ==
  /\ reqs[1].op = "uncomment"
  /\ reqs[1].pc = "done"
  /\ reqs[1].res.status = 403
  /\ Cardinality(comments) = 2
  /\ \E p \in DOMAIN posts : posts[p].commentCount >= 1

\* the rows a step adds to or removes from a table
Changed(before, after) == (after \ before) \cup (before \ after)

C22_FailsClosedUnauthorized ==
  [][\A r \in Slots :
       CallEnds(r, "auth") =>
         /\ reqs'[r].res = errorResponse("Unauthorized", 401)
         /\ UNCHANGED store]_vars

\* C23: in every reachable state no two users share an id, a username, an
\* email, or a phone that is not null, whatever the interleaving of register
\* and profile-update requests.
C23_UsersUnique ==
  \A a \in users, b \in users :
    a # b =>
      /\ a.id # b.id
      /\ a.username # b.username
      /\ a.email # b.email
      /\ (a.phone # NoPhone => a.phone # b.phone)

\* C23 witness: two registrations with the same fresh username both passed
\* the pre-flight lookup; one inserted its row, the other was stopped by the
\* store's unique index
C23_Witness ==
  \E r1 \in Slots, r2 \in Slots :
    /\ r1 # r2
    /\ \A r \in {r1, r2} : reqs[r].op = "register" /\ reqs[r].pc = "done"
    /\ reqs[r1].arg.username = reqs[r2].arg.username
    /\ reqs[r1].res.status = 201
    /\ reqs[r2].res = errorResponse("username already in use", 400)
    /\ Cardinality(users) = NumUsers + 1

\* the answers that name a duplicate: status 400 and "<field> already in use"
DuplicateConstraint ==
  {errorResponse(m, 400) :
     m \in {"Email already in use", "Username already in use", "Phone already in use",
            "email already in use", "username already in use", "phone already in use"}}

\* C24: a register or profile-update request whose username, email or phone
\* is held by another user when it is answered gets the DuplicateConstraint
\* answer (400 naming a field), never the generic failure, whether the
\* pre-flight lookup or the store's unique index found it; the User table is
\* unchanged by that request.
C24_DuplicateAnswered400 ==
  [][\A r \in Slots :
       (CallEnds(r, "register") \/ CallEnds(r, "patchMe")) =>
         LET q == reqs'[r]
             email == IF q.op = "register" THEN q.arg.email ELSE NotSent
         IN UniqueViolations(users, q.userId, q.arg.username, email, q.arg.phone) # {}
              => /\ q.res \in DuplicateConstraint
                 /\ users' = users]_vars

\* C25: a like or unlike request for a post id that does not exist is
\* answered 404 "Post not found", and it leaves the Like rows and every
\* post's likeCount as they were.
C25_LikeMissingPost ==
  [][\A r \in Slots :
       ((CallEnds(r, "like") \/ CallEnds(r, "unlike")) /\ reqs'[r].arg \notin DOMAIN posts)
         => /\ reqs'[r].res = errorResponse("Post not found", 404)
            /\ likes' = likes
            /\ posts' = posts]_vars

\* C25 witness: with a Like row stored, an unlike of a missing post id was
\* answered 404
C25_Witness ==
  \E r \in Slots :
    /\ reqs[r].op = "unlike"
    /\ reqs[r].pc = "done"
    /\ reqs[r].arg \notin DOMAIN posts
    /\ reqs[r].res.status = 404
    /\ likes # {}
    /\ \E p \in DOMAIN posts : posts[p].likeCount > 0

\* posts with the commentCount of post p set to the number of its rows in cs
Recounted(ps, cs, p) ==
  [ps EXCEPT ![p].commentCount = Cardinality(CommentsOf(cs, p))]

PageSize(total, page, limit) ==
  LET rest == total - (page - 1) * limit IN
    IF rest <= 0 THEN 0 ELSE IF rest < limit THEN rest ELSE limit

\* C27: the likers listing of an existing post succeeds for every viewer and
\* every Authorization header; it lists, page by page, the users holding a
\* Like row of the post, each once; for an identified viewer v an entry x has
\* isFollowedByMe = (Follow v->x exists), followsMe = (Follow x->v exists) and
\* isMe = (x = v); a header without a Bearer token that verifies makes the
\* viewer anonymous, and then all three flags are false.
C27_LikersFlags ==
  [][/\ \A h \in Headers :
          (Len(h) < 2 \/ ~h[2].signed \/ h[2].expired) => optionalAuth(h) = Anonymous
     /\ \A u \in TokenHolders :
          optionalAuth(<<"Bearer", [id |-> u, signed |-> TRUE, expired |-> FALSE]>>) = u
     /\ \A r \in Slots :
          (CallEnds(r, "likers") /\ reqs'[r].arg.key \in DOMAIN posts) =>
            LET q == reqs'[r]
                v == q.userId
                items == q.res.data.items
                likers == {l.userId : l \in LikesOf(likes, q.arg.key)}
            IN /\ q.res.status = 200
               /\ q.res.data.pagination.total = Cardinality(likers)
               /\ Len(items) = PageSize(Cardinality(likers), q.arg.page, q.arg.limit)
               /\ \A i \in DOMAIN items, j \in DOMAIN items : i # j => items[i].id # items[j].id
               /\ \A i \in DOMAIN items :
                    LET x == items[i].id IN
                      /\ x \in likers
                      /\ items[i].isFollowedByMe
                           = (v # Anonymous /\ \E f \in follows : f.followerId = v /\ f.followingId = x)
                      /\ items[i].followsMe
                           = (v # Anonymous /\ \E f \in follows : f.followerId = x /\ f.followingId = v)
                      /\ items[i].isMe = (v # Anonymous /\ x = v)]_vars

\* C27 witness: an identified viewer got a liker they follow but who does not
\* follow them back
C27_Witness ==
  \E r \in Slots :
    /\ reqs[r].op = "likers"
    /\ reqs[r].pc = "done"
    /\ reqs[r].res.status = 200
    /\ reqs[r].userId # Anonymous
    /\ \E i \in DOMAIN reqs[r].res.data.items :
         LET it == reqs[r].res.data.items[i] IN
           it.isFollowedByMe /\ ~it.followsMe /\ ~it.isMe

\* C28: an unsave request for a post id that does not exist is answered 404
\* "Post not found", as a save request for it is; for an existing post the
\* unsave is answered 200.
C28_UnsaveMissingPost ==
  [][\A r \in Slots :
       CallEnds(r, "unsave") =>
         IF reqs'[r].arg \in DOMAIN posts
           THEN reqs'[r].res.status = 200
           ELSE reqs'[r].res = errorResponse("Post not found", 404)]_vars

\* the answers that carry a post's like count: from the stored counter (like,
\* unlike, my liked posts) and from counting Like rows (feed, detail, a
\* user's posts, a user's liked posts)
CountOps == {"like", "unlike", "myLikes", "feed", "detail", "userPosts", "userLikes"}

\* the (post id, likeCount) pairs of a successful answer
AnswerCounts(q) ==
  IF q.op \in {"like", "unlike"} THEN {<<q.arg, q.res.data.likeCount>>}
  ELSE IF q.op = "detail" THEN {<<q.res.data.id, q.res.data.likeCount>>}
  ELSE {<<q.res.data.items[i].id, q.res.data.items[i].likeCount>> :
          i \in DOMAIN q.res.data.items}

\* C29: with like and unlike requests handled one after another, every
\* answer that carries a post's like count carries the same number, whether
\* it is read from the stored likeCount or counted from the Like rows: both
\* equal the number of Like rows of the post when the answer is made.
C29_LikeCountPathsAgree ==
  [][\A r \in Slots :
       (reqs'[r].op \in CountOps /\ CallEnds(r, reqs'[r].op) /\ reqs'[r].res.status = 200) =>
         \A pair \in AnswerCounts(reqs'[r]) :
           /\ pair[2] = posts'[pair[1]].likeCount
           /\ pair[2] = Cardinality(LikesOf(likes', pair[1]))
           /\ pair[2] = toPostSummary(pair[1], FALSE).likeCount']_vars

\* C29 witness: after a like, the liked-posts listing answered with the
\* post's stored counter, which is not zero
C29_Witness ==
  \E r \in Slots :
    /\ reqs[r].op = "myLikes"
    /\ reqs[r].pc = "done"
    /\ \E i \in DOMAIN reqs[r].res.data.items :
         /\ reqs[r].res.data.items[i].likeCount > 0
         /\ reqs[r].res.data.items[i].likeCount = Cardinality(LikesOf(likes, reqs[r].res.data.items[i].id))

\* C30: when an unfollow of b by a is answered with success ({following:
\* false}) and no follow of b by a runs at the same time, no Follow row a->b
\* is stored afterwards, also when the store's delete call failed for
\* another reason than the row being absent.
C30_UnfollowedMeansAbsent ==
  [][\A r \in Slots :
       (CallEnds(r, "unfollow") /\ reqs'[r].res.status = 200) =>
         \A b \in users :
           b.username = reqs'[r].arg => FollowRows(follows', reqs'[r].userId, b.id) = {}]_vars

====
